---- MODULE Spec2Model ----
(***************************************************************************)
(* Provider wallet settlement gateway (BSG callbacks).                     *)
(*                                                                         *)
(* The model follows src/app/providers/bsg/endpoints/*.py statement by     *)
(* statement where a statement talks to the database.  The database is     *)
(* the MySQL/InnoDB engine db.py connects to: row locks on the wallet row  *)
(* (shared for SELECT ... LOCK IN SHARE MODE, exclusive for SELECT ... FOR *)
(* UPDATE and for UPDATE), a unique index on the journal's dedupe key      *)
(* whose check waits for an uncommitted row with the same key, gap locks   *)
(* taken by a locking read that finds no wallet, and deadlock detection    *)
(* that makes one waiter of a cycle fail.                                  *)
(*                                                                         *)
(* Text values are sequences of one-character strings so that decoding,    *)
(* splitting and concatenation are computed the way the code computes      *)
(* them.  A Decimal is kept as a whole number of ten-thousandths of a     *)
(* currency unit (10.00 is 100000), so that dividing cents by 100,         *)
(* quantizing to two places and converting back to cents are computed.     *)
(***************************************************************************)
EXTENDS Integers, Sequences, FiniteSets, TLC

\* ------------------------------------------------------------------ bounds
NumProcs == 2
MaxCalls == 3
MaxFaults == 1

Procs == 1..NumProcs

\* ------------------------------------------------------------ text values
\* Python None for an optional text value.
NoneStr == <<"<None>">>

IsNone(s) == s = NoneStr

\* Python truthiness of an Optional[str]: None and "" are falsy.
Truthy(s) == s # NoneStr /\ s # <<>>

Digits == <<"0", "1", "2", "3", "4", "5", "6", "7", "8", "9">>

IsDigit(c) == \E i \in 1..10 : Digits[i] = c

DigitVal(c) == (CHOOSE i \in 1..10 : Digits[i] = c) - 1

RECURSIVE NatToStr(_)
NatToStr(n) == IF n < 10 THEN <<Digits[n + 1]>>
               ELSE NatToStr(n \div 10) \o <<Digits[(n % 10) + 1]>>

\* str(int)
IntToStr(n) == IF n < 0 THEN <<"-">> \o NatToStr(0 - n) ELSE NatToStr(n)

RECURSIVE DigitsToNat(_)
DigitsToNat(s) == IF s = <<>> THEN 0
                  ELSE 10 * DigitsToNat(SubSeq(s, 1, Len(s) - 1)) + DigitVal(s[Len(s)])

RECURSIVE Strip(_)
Strip(s) == IF s # <<>> /\ Head(s) = " " THEN Strip(Tail(s))
            ELSE IF s # <<>> /\ s[Len(s)] = " " THEN Strip(SubSeq(s, 1, Len(s) - 1))
            ELSE s

\* int(text): an optional sign and at least one digit, surrounding blanks
\* ignored; anything else raises ValueError.
IntParses(s) ==
    LET t == Strip(s)
        body == IF t # <<>> /\ Head(t) \in {"-", "+"} THEN Tail(t) ELSE t
    IN  body # <<>> /\ \A i \in 1..Len(body) : IsDigit(body[i])

IntOf(s) ==
    LET t == Strip(s)
        body == IF t # <<>> /\ Head(t) \in {"-", "+"} THEN Tail(t) ELSE t
    IN  IF t # <<>> /\ Head(t) = "-" THEN 0 - DigitsToNat(body) ELSE DigitsToNat(body)

\* urllib.parse.unquote_plus: "+" becomes a blank, "%7C" / "%7c" becomes "|",
\* "%2B" becomes "+"; other text is kept.
RECURSIVE unquote_plus(_)
unquote_plus(s) ==
    IF s = <<>> THEN <<>>
    ELSE IF Head(s) = "+" THEN <<" ">> \o unquote_plus(Tail(s))
    ELSE IF Len(s) >= 3 /\ s[1] = "%" /\ s[2] = "7" /\ s[3] \in {"C", "c"}
         THEN <<"|">> \o unquote_plus(SubSeq(s, 4, Len(s)))
    ELSE IF Len(s) >= 3 /\ s[1] = "%" /\ s[2] = "2" /\ s[3] \in {"B", "b"}
         THEN <<"+">> \o unquote_plus(SubSeq(s, 4, Len(s)))
    ELSE <<Head(s)>> \o unquote_plus(Tail(s))

\* Index of the first "|" of s, 0 when there is none.
FirstBar(s) == IF \E i \in 1..Len(s) : s[i] = "|"
               THEN CHOOSE i \in 1..Len(s) : s[i] = "|" /\ \A j \in 1..(i - 1) : s[j] # "|"
               ELSE 0

UpperLetters == <<"A", "B", "C", "D", "E", "F", "G", "H", "I", "J", "K", "L", "M",
                  "N", "O", "P", "Q", "R", "S", "T", "U", "V", "W", "X", "Y", "Z">>

LowerLetters == <<"a", "b", "c", "d", "e", "f", "g", "h", "i", "j", "k", "l", "m",
                  "n", "o", "p", "q", "r", "s", "t", "u", "v", "w", "x", "y", "z">>

LowerChar(c) == IF \E i \in 1..Len(UpperLetters) : UpperLetters[i] = c
                THEN LowerLetters[CHOOSE i \in 1..Len(UpperLetters) : UpperLetters[i] = c]
                ELSE c

\* str.lower() on a flag value such as "TRUE".
LowerFlag(s) == [i \in 1..Len(s) |-> LowerChar(s[i])]

\* ----------------------------------------------------------------- digests
\* hashlib.md5(s).hexdigest(): a lowercase digest that determines s.
md5_hex(s) == <<"md5">> \o s

\* str.lower() of a digest: an upper-case rendering of the same digest
\* becomes the lower-case one.
HexLower(h) == IF h # <<>> /\ Head(h) = "MD5" THEN <<"md5">> \o Tail(h) ELSE h

HexUpper(h) == IF h # <<>> /\ Head(h) = "md5" THEN <<"MD5">> \o Tail(h) ELSE h

\* ----------------------------------------------------------- bank registry
\* The banks that have a configuration directory (settings.list_available_banks).
AvailableBanks == {6111}

\* BankModel of the configured bank (pass key, default currency, protocol).
get_bank_settings(bank_id) ==
    [BANK_ID |-> bank_id,
     BSG_PASS_KEY |-> <<"s", "k">>,
     BSG_DEFAULT_CURRENCY |-> "USD",
     BSG_PROTOCOL |-> "xml"]

\* BSGBaseSettings.BSG_DEFAULT_BANK_ID defaults to None (0 stands for None:
\* both are falsy where the value is used).
BSG_DEFAULT_BANK_ID == 0

MinOf(S) == CHOOSE x \in S : \A y \in S : x <= y

\* settings.resolve_bank_id; "HTTP500" stands for the HTTPException.
resolve_bank_id(incoming_bank_id) ==
    IF incoming_bank_id # 0 /\ incoming_bank_id \in AvailableBanks THEN incoming_bank_id
    ELSE IF BSG_DEFAULT_BANK_ID # 0 /\ BSG_DEFAULT_BANK_ID \in AvailableBanks
         THEN BSG_DEFAULT_BANK_ID
    ELSE IF AvailableBanks # {} THEN MinOf(AvailableBanks)
    ELSE -1

\* ------------------------------------------------------ betResult helpers
\* bet_result._parse_amount_and_ext: (amount, external id); amt_ok is FALSE
\* when the amount is None, ext is NoneStr when the external id is None.
_parse_amount_and_ext(value) ==
    IF ~Truthy(value) THEN [amt_ok |-> FALSE, amt |-> 0, ext |-> NoneStr]
    ELSE LET raw == unquote_plus(value)
             bar == FirstBar(raw)
         IN  IF bar > 0
             THEN LET left == Strip(SubSeq(raw, 1, bar - 1))
                      right == Strip(SubSeq(raw, bar + 1, Len(raw)))
                  IN  [amt_ok |-> (left = <<>> \/ IntParses(left)),
                       amt |-> IF left = <<>> \/ ~IntParses(left) THEN 0 ELSE IntOf(left),
                       ext |-> IF right = <<>> THEN NoneStr ELSE right]
             ELSE [amt_ok |-> IntParses(raw),
                   amt |-> IF IntParses(raw) THEN IntOf(raw) ELSE 0,
                   ext |-> NoneStr]

\* The digest taken over the bet and win values as they arrive.
_hash_for_bet_result_raw(user_id, bet_raw, win_raw, is_round_finished, round_id, game_id, pass_key) ==
    LET bet_part == IF Truthy(bet_raw) THEN bet_raw ELSE <<>>
        win_part == IF Truthy(win_raw) THEN win_raw ELSE <<>>
        irf_part == IF IsNone(is_round_finished) THEN <<>> ELSE LowerFlag(is_round_finished)
        rid == IF Truthy(round_id) THEN round_id ELSE <<>>
        gid == IF Truthy(game_id) THEN game_id ELSE <<>>
    IN  md5_hex(IntToStr(user_id) \o bet_part \o win_part \o irf_part \o rid \o gid \o pass_key)

\* bet_result._hash_for_bet_result
_hash_for_bet_result(user_id, bet_raw, win_raw, is_round_finished, round_id, game_id, pass_key) ==
    LET bet_part == IF Truthy(bet_raw) THEN unquote_plus(bet_raw) ELSE <<>>
        win_part == IF Truthy(win_raw) THEN unquote_plus(win_raw) ELSE <<>>
        irf_part == IF IsNone(is_round_finished) THEN <<>> ELSE LowerFlag(is_round_finished)
        rid == IF Truthy(round_id) THEN round_id ELSE <<>>
        gid == IF Truthy(game_id) THEN game_id ELSE <<>>
    IN  md5_hex(IntToStr(user_id) \o bet_part \o win_part \o irf_part \o rid \o gid \o pass_key)

\* helpers._normalize_bool_to_bsg for a text value or None.
_normalize_bool_to_bsg(val) ==
    IF IsNone(val) THEN <<>>
    ELSE LET s == LowerFlag(Strip(val))
         IN  IF s \in {<<"t", "r", "u", "e">>, <<"f", "a", "l", "s", "e">>, <<>>} THEN s
             ELSE IF s \in {<<"1">>, <<"y">>, <<"y", "e", "s">>, <<"t">>} THEN <<"t", "r", "u", "e">>
             ELSE IF s \in {<<"0">>, <<"n">>, <<"n", "o">>, <<"f">>} THEN <<"f", "a", "l", "s", "e">>
             ELSE s

\* helpers.md5_hex_bet called with positional arguments.
md5_hex_bet(user_id, bet, win, is_round_finished, round_id, game_id, pass_key) ==
    LET bet_part == IF IsNone(bet) THEN <<>> ELSE unquote_plus(bet)
        win_part == IF IsNone(win) THEN <<>> ELSE win
        rid == IF IsNone(round_id) THEN <<>> ELSE round_id
        gid == IF IsNone(game_id) THEN <<>> ELSE game_id
    IN  md5_hex(IntToStr(user_id) \o bet_part \o win_part \o _normalize_bool_to_bsg(is_round_finished)
                \o rid \o gid \o pass_key)

\* helpers.hash_ok_token
hash_ok_token(token, pass_key, their_hash) ==
    IF ~Truthy(their_hash) THEN FALSE
    ELSE HexLower(md5_hex(token \o pass_key)) = HexLower(their_hash)

\* helpers.hash_ok_user
hash_ok_user(user_id, pass_key, their_hash) ==
    IF ~Truthy(their_hash) THEN FALSE
    ELSE HexLower(md5_hex(IntToStr(user_id) \o pass_key)) = HexLower(their_hash)

\* The digest check reduced to "a digest was sent".
RefundHashPresent(user_id, casino_transaction_id, pass_key, their_hash) == Truthy(their_hash)

\* refund_bet: expected.lower() != hash.lower()
RefundHashOk(user_id, casino_transaction_id, pass_key, their_hash) ==
    HexLower(md5_hex(IntToStr(user_id) \o casino_transaction_id \o pass_key)) = HexLower(their_hash)

\* bet_result: expected_md5.lower() != hash.lower()
BetHashOk(r, pass_key) ==
    HexLower(_hash_for_bet_result(r.userId,
                                  IF Truthy(r.bet) THEN r.bet ELSE <<>>,
                                  IF Truthy(r.win) THEN r.win ELSE <<>>,
                                  r.isRoundFinished, r.roundId, r.gameId, pass_key))
        = HexLower(r.hash)

\* ------------------------------------------------------------------ state
VARIABLES
    wallets,              \* committed rows of table wallets
    journal,              \* committed rows of table gameplay_transactions
    next_wallet_id,       \* AUTO_INCREMENT of wallets.wallet_id
    next_transaction_id,  \* AUTO_INCREMENT of gameplay_transactions.transaction_id
    pc,                   \* per request slot: the statement the handler is at
    req,                  \* per request slot: the request being served
    loc,                  \* per request slot: the handler's local variables
    tx,                   \* per request slot: the open database transaction
    last,                 \* the request answered by the last step and its response
    only,                 \* the one request the provider keeps re-delivering, if it does
    calls,                \* callbacks delivered so far
    faults,               \* storage failures injected so far
    sessions,             \* committed rows of table user_sessions
    now                   \* the clock (datetime.utcnow), in token lifetimes' units

vars == <<wallets, journal, next_wallet_id, next_transaction_id,
          pc, req, loc, tx, last, only, calls, faults, sessions, now>>

\* ------------------------------------------------------ tokens and sessions
\* Python None for a time (expires_at, exp).
NoTime == 0 - 1

\* The expiry the login gives the game token and the lobby token, the
\* lifetime a refresh gives the new token, and the refresh threshold.
GameTokenExp == 2

LobbyTokenExp == 1

RefreshTtl == 2

RefreshThreshold == 1

\* The claims of a token that does not verify.
NoClaims == [signed |-> FALSE, sub |-> NoneStr, uid |-> 0, type |-> "none", provider |-> "none",
             bankId |-> 0, gameId |-> "none", exp |-> NoTime]

\* The claims the tokens issued at login were signed with: t1 and t2 are the
\* game tokens of players 1 and 2, tl is the lobby token of player 1; tx
\* was not signed with the key.
IssuedClaims(token) ==
    IF token = <<"t", "1">>
    THEN [NoClaims EXCEPT !.signed = TRUE, !.sub = <<"1">>, !.uid = 1, !.type = "game",
                          !.provider = "bsg", !.bankId = 6111, !.gameId = "g", !.exp = GameTokenExp]
    ELSE IF token = <<"t", "2">>
    THEN [NoClaims EXCEPT !.signed = TRUE, !.sub = <<"2">>, !.uid = 2, !.type = "game",
                          !.provider = "bsg", !.bankId = 6111, !.gameId = "g", !.exp = GameTokenExp]
    ELSE IF token = <<"t", "l">>
    THEN [NoClaims EXCEPT !.signed = TRUE, !.sub = <<"1">>, !.uid = 1, !.type = "lobby",
                          !.exp = LobbyTokenExp]
    ELSE NoClaims

\* security.create_token: the token that carries the claims (uid 0, bankId 0
\* and "none" stand for None), sub taken from uid, else from sub, else
\* "user", and exp set exp_m after the clock.
create_token(claims, exp_m) ==
    <<"jwt",
      IF claims.uid # 0 THEN IntToStr(claims.uid)
      ELSE IF ~IsNone(claims.sub) THEN claims.sub
      ELSE <<"u", "s", "e", "r">>,
      claims.uid, claims.type, claims.provider, claims.bankId, claims.gameId, now + exp_m>>

\* The claims a token carries: those of a token issued at login, or those a
\* token made by create_token was built from.
TokenClaims(token) ==
    IF Len(token) = 8
    THEN [signed |-> TRUE, sub |-> token[2], uid |-> token[3], type |-> token[4],
          provider |-> token[5], bankId |-> token[6], gameId |-> token[7], exp |-> token[8]]
    ELSE IssuedClaims(token)

\* Tokens a caller may present: t1 and t2 are signed, unexpired game tokens
\* of players 1 and 2, tl is the lobby token of player 1, tx does not verify.
Tokens == {<<"t", "1">>, <<"t", "2">>, <<"t", "l">>, <<"t", "x">>}

\* security.decode_token: the claims, or None (valid FALSE) when jwt.decode
\* raises: the signature does not verify, or exp is not after the clock.
decode_token(token) ==
    LET c == TokenClaims(token)
    IN  IF c.signed /\ c.exp > now
        THEN [valid |-> TRUE, sub |-> c.sub, uid |-> c.uid, type |-> c.type, provider |-> c.provider,
              bankId |-> c.bankId, gameId |-> c.gameId, exp |-> c.exp]
        ELSE [valid |-> FALSE, sub |-> NoneStr, uid |-> 0, type |-> "none", provider |-> "none",
              bankId |-> 0, gameId |-> "none", exp |-> NoTime]

\* Rows of table user_sessions: player 1 holds the lobby session and the
\* game session the login created; player 2's game session has ended.
UserSessions ==
    {[session_id |-> 1, userId |-> 1, token |-> <<"t", "l">>, session_type |-> "lobby",
      provider |-> "instagram_basic_display", status |-> "active", bankId |-> 0,
      expires_at |-> LobbyTokenExp],
     [session_id |-> 2, userId |-> 1, token |-> <<"t", "1">>, session_type |-> "game",
      provider |-> "bsg", status |-> "active", bankId |-> 6111,
      expires_at |-> GameTokenExp]}

\* Players known to the operator (table players) and the wallet the first of
\* them starts with: 10.00 in the bank's default currency.
Players == {1, 2}

InitWallets == {[wallet_id |-> 1, userId |-> 1, currency_code |-> "USD", balance |-> 100000]}

\* ---------------------------------------------------------------- requests
NoReq == [kind |-> "none", bankId |-> 0, userId |-> 0, bet |-> NoneStr, win |-> NoneStr,
          isRoundFinished |-> NoneStr, roundId |-> NoneStr, gameId |-> NoneStr,
          casinoTransactionId |-> NoneStr, token |-> NoneStr, hash |-> NoneStr]

PassKey == get_bank_settings(resolve_bank_id(0)).BSG_PASS_KEY

\* What a caller may send as the digest of text t: the digest over t and the
\* pass key, the same in upper case, or the digest with the last byte of the
\* pass key removed.
GoodHash(t) == md5_hex(t \o PassKey)

BadHash(t) == md5_hex(t \o SubSeq(PassKey, 1, Len(PassKey) - 1))

\* The digest a caller sends: "good", "upper" (good, in upper case) or "bad".
HashAs(variant, t) ==
    IF variant = "good" THEN GoodHash(t)
    ELSE IF variant = "upper" THEN HexUpper(GoodHash(t))
    ELSE IF variant = "none" THEN NoneStr
    ELSE BadHash(t)

Bet80a == <<"8", "0", "|", "a">>

Win50w == <<"5", "0", "|", "w">>

\* A win that carries the external id of the bet 80|a.
Win50a == <<"5", "0", "|", "a">>

\* A bet value without the separator and the external id.
Bet80 == <<"8", "0">>

\* A bet whose amount parses as a negative integer, under the external id
\* of the bet 80|a.
BetMinus80a == <<"-", "8", "0", "|", "a">>

\* The bet 80|a as it arrives when its separator is still percent-encoded.
Bet80aEncoded == <<"8", "0", "%", "7", "C", "a">>

\* The text the provider signs for a betResult (values already URL-decoded).
BetSigned(u, b, w, irf, rid, gid) ==
    IntToStr(u) \o (IF Truthy(b) THEN unquote_plus(b) ELSE <<>>)
                \o (IF Truthy(w) THEN unquote_plus(w) ELSE <<>>)
                \o (IF IsNone(irf) THEN <<>> ELSE LowerFlag(irf)) \o rid \o gid

BetRequest(u, b, w, h) ==
    [NoReq EXCEPT !.kind = "betResult", !.bankId = 6111, !.userId = u, !.bet = b, !.win = w,
                  !.roundId = <<"r">>, !.gameId = <<"g">>, !.hash = h]

\* The betResult deliveries: player, bet, win, digest.
BetCalls ==
    {<<1, Bet80a, NoneStr, "good">>, <<1, NoneStr, Win50w, "good">>, <<1, Bet80a, Win50w, "good">>,
     <<1, Bet80a, NoneStr, "upper">>, <<1, Bet80a, Win50w, "bad">>,
     <<1, NoneStr, NoneStr, "good">>, <<1, NoneStr, NoneStr, "bad">>,
     <<2, Bet80a, NoneStr, "good">>, <<1, Bet80, NoneStr, "good">>,
     <<1, Bet80aEncoded, NoneStr, "good">>, <<1, BetMinus80a, NoneStr, "good">>,
     <<2, NoneStr, NoneStr, "bad">>,
     <<1, NoneStr, Win50a, "good">>, <<1, Bet80a, Win50a, "good">>}

\* The text of a betResult with the bet and the win left as they arrive.
BetSignedEncoded(u, b, w, rid, gid) ==
    IntToStr(u) \o (IF Truthy(b) THEN b ELSE <<>>) \o (IF Truthy(w) THEN w ELSE <<>>) \o rid \o gid

\* The deliveries of BetCalls, the encoded bet signed over its encoded form,
\* and a bet that names a bank with no configuration.
BetRequests ==
    { BetRequest(t[1], t[2], t[3], HashAs(t[4], BetSigned(t[1], t[2], t[3], NoneStr, <<"r">>, <<"g">>))) :
        t \in BetCalls }
    \cup {BetRequest(1, Bet80aEncoded, NoneStr,
                     GoodHash(BetSignedEncoded(1, Bet80aEncoded, NoneStr, <<"r">>, <<"g">>)))}
    \cup {[BetRequest(1, Bet80a, NoneStr, GoodHash(BetSigned(1, Bet80a, NoneStr, NoneStr, <<"r">>, <<"g">>)))
               EXCEPT !.bankId = 9999]}

RefundRequest(u, c, h) ==
    [NoReq EXCEPT !.kind = "refundBet", !.bankId = 6111, !.userId = u,
                  !.casinoTransactionId = c, !.hash = h]

\* The refundBet deliveries: player, casinoTransactionId, digest.
RefundCalls ==
    {<<1, <<"a">>, "good">>, <<1, <<"a">>, "upper">>, <<1, <<"a">>, "bad">>,
     <<1, <<"z">>, "good">>, <<2, <<"a">>, "good">>}

RefundRequests ==
    { RefundRequest(t[1], t[2], HashAs(t[3], IntToStr(t[1]) \o t[2])) : t \in RefundCalls }

\* ------------------------------------------------------------ slot values
NoLoc == [bank_id |-> 0, currency |-> "USD",
          bet_ok |-> FALSE, bet_cents |-> 0, bet_ext |-> NoneStr,
          win_ok |-> FALSE, win_cents |-> 0, win_ext |-> NoneStr,
          w_state |-> "none", w_id |-> 0, w_balance |-> 0,
          amount |-> 0, refund_id |-> 0]

\* An open transaction: the row lock it holds on wallet row wid ("none",
\* "S" or "X"), the gap lock a locking read that found no wallet left on
\* the player's index range, and its uncommitted writes.
NoTx == [lock |-> "none", wid |-> 0, gap_user |-> 0,
         new_wallet |-> FALSE, bal_has |-> FALSE, bal |-> 0, rows |-> {}]

NoResp == [result |-> "none", code |-> 0, ext |-> NoneStr, has_balance |-> FALSE, balance |-> 0]

Failed(code) == [NoResp EXCEPT !.result = "FAILED", !.code = code]

\* The handler raised: the caller gets no envelope but the framework's
\* transport-level error.
Raised == [NoResp EXCEPT !.result = "EXCEPTION"]

\* No response was delivered by the last step.
NoLast == [req |-> NoReq, resp |-> NoResp]

\* The database and the request slots as the service starts.
Started ==
    /\ wallets = InitWallets
    /\ journal = {}
    /\ next_wallet_id = 2
    /\ next_transaction_id = 1
    /\ pc = [p \in Procs |-> "idle"]
    /\ req = [p \in Procs |-> NoReq]
    /\ loc = [p \in Procs |-> NoLoc]
    /\ tx = [p \in Procs |-> NoTx]
    /\ last = NoLast
    /\ calls = 0
    /\ faults = 0
    /\ sessions = UserSessions
    /\ now = 0

Init == Started /\ only = NoReq

\* ------------------------------------------------------------- decimals
\* Decimal(cents) / Decimal(100)
DecFromCents(cents) == cents * 100

\* Decimal.quantize(Decimal("0.01"), rounding=ROUND_DOWN): towards zero.
QuantizeDown(d) == IF d >= 0 THEN (d \div 100) * 100 ELSE 0 - (((0 - d) \div 100) * 100)

\* Decimal.quantize(Decimal("0.01")) under the default context: half even.
QuantizeHalfEven(d) ==
    LET a == IF d >= 0 THEN d ELSE 0 - d
        q == a \div 100
        r == a % 100
        up == r > 50 \/ (r = 50 /\ q % 2 = 1)
        m == (IF up THEN q + 1 ELSE q) * 100
    IN  IF d >= 0 THEN m ELSE 0 - m

\* int(Decimal(balance) * 100): truncation towards zero.
IntTimes100(d) == IF d >= 0 THEN d \div 100 ELSE 0 - ((0 - d) \div 100)

\* ------------------------------------------------------------ the database
WalletRows(u, c) == {w \in wallets : w.userId = u /\ w.currency_code = c}

\* Query(...).first(): the row with the lowest primary key.
FirstWallet(u, c) ==
    CHOOSE w \in WalletRows(u, c) : \A v \in WalletRows(u, c) : w.wallet_id <= v.wallet_id

WalletById(id) == CHOOSE w \in wallets : w.wallet_id = id

\* The balance read and converted without the factor 100.
wallet_units(u, c) ==
    IF WalletRows(u, c) = {} THEN 0 ELSE IntTimes100(FirstWallet(u, c).balance) \div 100

\* helpers.wallet_cents: a plain read of the committed balance.
wallet_cents(u, c) ==
    IF WalletRows(u, c) = {} THEN 0 ELSE IntTimes100(FirstWallet(u, c).balance)

\* GameplayTransaction.__table_args__: the columns of uq_gameplay_ext.
DedupeKey(row) == <<row.userId, row.bank_id, row.transaction_type, row.external_transaction_id>>

JournalRow(id, u, wid, bank, type, amount, status, ext) ==
    [transaction_id |-> id, userId |-> u, wallet_id |-> wid, bank_id |-> bank,
     transaction_type |-> type, amount |-> amount, status |-> status,
     external_transaction_id |-> ext]

\* The journal without its unique index.
NoUniqueIndex(key) == FALSE

\* A unique index that lets a key be used again once its settlement has a
\* Processed refund.
UniqueViolationUnrefunded(key) ==
    \E row \in journal :
        /\ DedupeKey(row) = key
        /\ ~\E r \in journal : /\ r.transaction_type = "refund" /\ r.status = "Processed"
                               /\ r.userId = row.userId /\ r.bank_id = row.bank_id
                               /\ r.external_transaction_id = row.external_transaction_id

\* The unique index rejects an insert whose key a committed row has.
UniqueViolation(key) == \E row \in journal : DedupeKey(row) = key

\* Transactions a locking read of the player's wallet waits for: the holder
\* of the exclusive lock on the row the scan stops at.
ReadBlockers(p) ==
    LET u == req[p].userId
        rows == WalletRows(u, loc[p].currency)
    IN  IF rows # {}
        THEN {q \in Procs \ {p} : tx[q].lock = "X" /\ ~tx[q].new_wallet
                                  /\ tx[q].wid = FirstWallet(u, loc[p].currency).wallet_id}
        ELSE {q \in Procs \ {p} : tx[q].new_wallet /\ req[q].userId = u}

\* Transactions an UPDATE (or SELECT ... FOR UPDATE) of wallet row wid waits for.
WriteBlockers(p, wid) ==
    {q \in Procs \ {p} : tx[q].lock \in {"S", "X"} /\ tx[q].wid = wid}

\* Transactions an INSERT of a wallet for player u waits for: holders of a
\* gap lock on the player's index range.
GapBlockers(p, u) == {q \in Procs \ {p} : tx[q].gap_user = u}

\* Transactions an INSERT of a journal row waits for: an uncommitted row
\* with the same dedupe key.
KeyBlockers(p, key) ==
    {q \in Procs \ {p} : \E row \in tx[q].rows : DedupeKey(row) = key}

BetKey(p) == <<req[p].userId, loc[p].bank_id, "bet", loc[p].bet_ext>>

WinKey(p) == <<req[p].userId, loc[p].bank_id, "win", loc[p].win_ext>>

RefundKey(p) == <<req[p].userId, loc[p].bank_id, "refund", req[p].casinoTransactionId>>

\* Whether the bet (win) side changes the balance attribute, so that the
\* flush emits an UPDATE of the wallet row.
BetChanges(p) ==
    /\ ~IsNone(loc[p].bet_ext) /\ loc[p].bet_ok
    /\ QuantizeDown(loc[p].w_balance - QuantizeDown(DecFromCents(loc[p].bet_cents))) # loc[p].w_balance

WinChanges(p) ==
    /\ loc[p].win_cents > 0
    /\ QuantizeDown(loc[p].w_balance + QuantizeDown(DecFromCents(loc[p].win_cents))) # loc[p].w_balance

\* What the statement a handler is at waits for.
Blockers(p) ==
    CASE pc[p] = "br_wallet" -> ReadBlockers(p)
      [] pc[p] = "br_wallet_ins" -> GapBlockers(p, req[p].userId)
      [] pc[p] = "br_bet_upd" -> IF BetChanges(p) THEN WriteBlockers(p, loc[p].w_id) ELSE {}
      [] pc[p] = "br_bet_ins" -> KeyBlockers(p, BetKey(p))
      [] pc[p] = "br_win_upd" ->
            IF WinChanges(p) /\ loc[p].w_state = "persistent"
            THEN WriteBlockers(p, loc[p].w_id) ELSE {}
      [] pc[p] = "br_win_ins" -> KeyBlockers(p, WinKey(p))
      [] pc[p] = "rf_lock" ->
            IF WalletRows(req[p].userId, loc[p].currency) = {} THEN ReadBlockers(p)
            ELSE WriteBlockers(p, FirstWallet(req[p].userId, loc[p].currency).wallet_id)
      [] pc[p] = "rf_insert" -> KeyBlockers(p, RefundKey(p))
      [] pc[p] = "rf_failed" -> KeyBlockers(p, RefundKey(p))
      [] OTHER -> {}

RECURSIVE WaitClosure(_, _)
WaitClosure(S, n) ==
    IF n = 0 THEN S ELSE WaitClosure(S \cup UNION {Blockers(q) : q \in S}, n - 1)

\* p waits in a cycle of the wait-for graph: InnoDB's deadlock detection may
\* pick it as the victim.
InCycle(p) == Blockers(p) # {} /\ p \in WaitClosure(Blockers(p), NumProcs)

\* COMMIT: the transaction's writes become the committed rows.
CommittedWallets(p) ==
    IF tx[p].new_wallet
    THEN wallets \cup {[wallet_id |-> tx[p].wid, userId |-> req[p].userId,
                        currency_code |-> loc[p].currency,
                        balance |-> IF tx[p].bal_has THEN tx[p].bal ELSE 0]}
    ELSE IF tx[p].bal_has
    THEN {IF w.wallet_id = tx[p].wid THEN [w EXCEPT !.balance = tx[p].bal] ELSE w : w \in wallets}
    ELSE wallets

CommittedJournal(p) == journal \cup tx[p].rows

\* Session.rollback(): the writes are dropped, the locks released, and every
\* loaded object is expired (one the transaction had inserted is detached).
RolledBack(l, t) ==
    [l EXCEPT !.w_state = IF l.w_state = "none" THEN "none"
                          ELSE IF t.new_wallet \/ l.w_state = "transient" THEN "transient"
                          ELSE "expired"]

\* ----------------------------------------------------------- envelopes
\* xml.utils.envelope_fail
envelope_fail(code) == Failed(code)

\* xml.utils.envelope_bet_ok
envelope_bet_ok(ext_system_transaction_id, balance_cents) ==
    [NoResp EXCEPT !.result = "OK", !.ext = ext_system_transaction_id,
                   !.has_balance = TRUE, !.balance = balance_cents]

\* The keyword parameters xml.utils.envelope_ok declares (it takes the inner
\* document as its positional parameter "inner" and has no **kwargs).
EnvelopeOkKeywords == {"inner", "user_id", "username", "currency", "balance_cents", "request_fields"}

\* xml.utils.envelope_ok called with the keywords kw: a keyword it does not
\* declare raises TypeError; otherwise the document r is returned.
envelope_ok(kw, r) == IF kw \subseteq EnvelopeOkKeywords THEN r ELSE Raised

OkBalance(balance_cents) ==
    [NoResp EXCEPT !.result = "OK", !.has_balance = TRUE, !.balance = balance_cents]

OkTransaction(id) == [NoResp EXCEPT !.result = "OK", !.ext = id]

\* ------------------------------------------------------------- betResult
\* Callback r is delivered to the lowest free request slot.
Accept(p, r) ==
    /\ only \in {NoReq, r}
    /\ pc[p] = "idle"
    /\ \A q \in Procs : pc[q] = "idle" => p <= q
    /\ calls < MaxCalls
    /\ calls' = calls + 1

\* The handler returns r (or raises) for request rq; get_db closes the session.
Finish(p, rq, r) ==
    /\ pc' = [pc EXCEPT ![p] = "idle"]
    /\ req' = [req EXCEPT ![p] = NoReq]
    /\ loc' = [loc EXCEPT ![p] = NoLoc]
    /\ last' = [req |-> rq, resp |-> r]

\* The handler moves on to statement at with locals l.
Goto(p, at, l) ==
    /\ pc' = [pc EXCEPT ![p] = at]
    /\ loc' = [loc EXCEPT ![p] = l]
    /\ last' = NoLast

\* The digest compared before the parameters are looked at.
BrChecksHashFirst(r, pass_key) ==
    IF ~BetHashOk(r, pass_key) THEN 401
    ELSE IF ~Truthy(r.bet) /\ ~Truthy(r.win) THEN 400
    ELSE 0

\* bet_result lines 144-161: the code of the failure envelope the request is
\* answered with before anything is read or written, 0 when it passes.
BrChecks(r, pass_key) ==
    IF ~Truthy(r.bet) /\ ~Truthy(r.win) THEN 400
    ELSE IF ~BetHashOk(r, pass_key) THEN 401
    ELSE 0

\* bet_result lines 128-165: missing parameters, hash, parsing.
BrStart(p, r) ==
    /\ Accept(p, r)
    /\ LET resolved_bank_id == resolve_bank_id(r.bankId)
           bank == get_bank_settings(resolved_bank_id)
           b == _parse_amount_and_ext(r.bet)
           w == _parse_amount_and_ext(r.win)
       IN  IF BrChecks(r, bank.BSG_PASS_KEY) # 0
           THEN Finish(p, r, envelope_fail(BrChecks(r, bank.BSG_PASS_KEY)))
           ELSE /\ req' = [req EXCEPT ![p] = r]
                /\ Goto(p, "br_wallet",
                        [NoLoc EXCEPT !.bank_id = resolved_bank_id,
                                      !.currency = bank.BSG_DEFAULT_CURRENCY,
                                      !.bet_ok = b.amt_ok, !.bet_cents = b.amt, !.bet_ext = b.ext,
                                      !.win_ok = w.amt_ok, !.win_cents = w.amt, !.win_ext = w.ext])
    /\ UNCHANGED <<sessions, now, only, wallets, journal, next_wallet_id, next_transaction_id, tx, faults>>

\* _get_or_create_wallet lines 79-86: SELECT ... LOCK IN SHARE MODE.
BrWallet(p) ==
    /\ pc[p] = "br_wallet"
    /\ Blockers(p) = {}
    /\ LET u == req[p].userId
           c == loc[p].currency
       IN  IF WalletRows(u, c) # {}
           THEN /\ tx' = [tx EXCEPT ![p] = [@ EXCEPT !.lock = "S", !.wid = FirstWallet(u, c).wallet_id]]
                /\ Goto(p, "br_bet_upd", [loc[p] EXCEPT !.w_state = "persistent",
                                                       !.w_id = FirstWallet(u, c).wallet_id,
                                                       !.w_balance = FirstWallet(u, c).balance])
           ELSE /\ tx' = [tx EXCEPT ![p] = [@ EXCEPT !.gap_user = u]]
                /\ Goto(p, "br_wallet_ins", loc[p])
    /\ UNCHANGED <<sessions, now, only, wallets, journal, next_wallet_id, next_transaction_id, req, calls, faults>>

\* _get_or_create_wallet lines 87-90: INSERT of the zero-balance wallet.
BrWalletInsert(p) ==
    /\ pc[p] = "br_wallet_ins"
    /\ Blockers(p) = {}
    /\ tx' = [tx EXCEPT ![p] = [@ EXCEPT !.lock = "X", !.wid = next_wallet_id, !.new_wallet = TRUE]]
    /\ next_wallet_id' = next_wallet_id + 1
    /\ Goto(p, "br_bet_upd", [loc[p] EXCEPT !.w_state = "persistent", !.w_id = next_wallet_id,
                                           !.w_balance = 0])
    /\ UNCHANGED <<sessions, now, only, wallets, journal, next_transaction_id, req, calls, faults>>

\* A debit refused (the balance left as it is) when the funds do not cover it.
_apply_amount_checking_funds(balance, cents, op) ==
    LET delta == QuantizeDown(DecFromCents(cents))
    IN  IF op = "debit"
        THEN IF balance < delta THEN balance ELSE QuantizeDown(balance - delta)
        ELSE QuantizeDown(balance + delta)

\* bet_result._apply_amount_to_wallet: the new balance.
_apply_amount_to_wallet(balance, cents, op) ==
    LET delta == QuantizeDown(DecFromCents(cents))
    IN  IF op = "debit" THEN QuantizeDown(balance - delta) ELSE QuantizeDown(balance + delta)

\* bet_result lines 172-191, first statement of the flush: the bet is applied
\* to the loaded wallet and the wallet row is updated.
BrBetUpdate(p) ==
    /\ pc[p] = "br_bet_upd"
    /\ IF ~IsNone(loc[p].bet_ext) /\ loc[p].bet_ok
       THEN /\ Blockers(p) = {}
            /\ LET nb == _apply_amount_to_wallet(loc[p].w_balance, loc[p].bet_cents, "debit")
               IN  /\ tx' = IF BetChanges(p)
                            THEN [tx EXCEPT ![p] = [@ EXCEPT !.lock = "X", !.wid = loc[p].w_id,
                                                             !.bal_has = TRUE, !.bal = nb]]
                            ELSE tx
                   /\ Goto(p, "br_bet_ins", [loc[p] EXCEPT !.w_balance = nb])
       ELSE /\ Goto(p, "br_win", loc[p])
            /\ UNCHANGED tx
    /\ UNCHANGED <<sessions, now, only, wallets, journal, next_wallet_id, next_transaction_id, req, calls, faults>>

\* bet_result lines 188-194, second statement of the flush: INSERT of the
\* bet row; IntegrityError rolls the transaction back.
BrBetInsert(p) ==
    /\ pc[p] = "br_bet_ins"
    /\ Blockers(p) = {}
    /\ next_transaction_id' = next_transaction_id + 1
    /\ IF UniqueViolation(BetKey(p))
       THEN /\ tx' = [tx EXCEPT ![p] = NoTx]
            /\ Goto(p, "br_win", RolledBack(loc[p], tx[p]))
       ELSE /\ tx' = [tx EXCEPT ![p] = [@ EXCEPT !.rows = @ \cup
                       {JournalRow(next_transaction_id, req[p].userId, loc[p].w_id, loc[p].bank_id,
                                   "bet", DecFromCents(loc[p].bet_cents), "Processed", loc[p].bet_ext)}]]
            /\ Goto(p, "br_win", loc[p])
    /\ UNCHANGED <<sessions, now, only, wallets, journal, next_wallet_id, req, calls, faults>>

\* bet_result lines 201-206: the win row is built from w.wallet_id; after a
\* rollback the expired wallet is first re-read by a plain SELECT.
BrWin(p) ==
    /\ pc[p] = "br_win"
    /\ IF ~IsNone(loc[p].win_ext) /\ loc[p].win_ok
       THEN Goto(p, "br_win_upd",
                 IF loc[p].w_state = "expired"
                 THEN [loc[p] EXCEPT !.w_state = "persistent",
                                     !.w_balance = WalletById(loc[p].w_id).balance]
                 ELSE loc[p])
       ELSE Goto(p, "br_commit", loc[p])
    /\ UNCHANGED <<sessions, now, only, wallets, journal, next_wallet_id, next_transaction_id, req, tx, calls, faults>>

\* bet_result lines 217-221, first statement of the flush.
BrWinUpdate(p) ==
    /\ pc[p] = "br_win_upd"
    /\ Blockers(p) = {}
    /\ LET nb == IF loc[p].win_cents > 0
                 THEN _apply_amount_to_wallet(loc[p].w_balance, loc[p].win_cents, "credit")
                 ELSE loc[p].w_balance
       IN  /\ tx' = IF WinChanges(p) /\ loc[p].w_state = "persistent"
                    THEN [tx EXCEPT ![p] = [@ EXCEPT !.lock = "X", !.wid = loc[p].w_id,
                                                     !.bal_has = TRUE, !.bal = nb]]
                    ELSE tx
           /\ Goto(p, "br_win_ins", [loc[p] EXCEPT !.w_balance = nb])
    /\ UNCHANGED <<sessions, now, only, wallets, journal, next_wallet_id, next_transaction_id, req, calls, faults>>

\* bet_result lines 217-224, second statement of the flush: INSERT of the
\* win row; IntegrityError (duplicate key, or a wallet_id that no longer
\* exists) rolls the whole transaction back.
BrWinInsert(p) ==
    /\ pc[p] = "br_win_ins"
    /\ Blockers(p) = {}
    /\ next_transaction_id' = next_transaction_id + 1
    /\ IF UniqueViolation(WinKey(p)) \/ loc[p].w_state = "transient"
       THEN /\ tx' = [tx EXCEPT ![p] = NoTx]
            /\ Goto(p, "br_commit", RolledBack(loc[p], tx[p]))
       ELSE /\ tx' = [tx EXCEPT ![p] = [@ EXCEPT !.rows = @ \cup
                       {JournalRow(next_transaction_id, req[p].userId, loc[p].w_id, loc[p].bank_id,
                                   "win", DecFromCents(loc[p].win_cents), "Processed", loc[p].win_ext)}]]
            /\ Goto(p, "br_commit", loc[p])
    /\ UNCHANGED <<sessions, now, only, wallets, journal, next_wallet_id, req, calls, faults>>

\* bet_result lines 231-232: COMMIT.
BrCommit(p) ==
    /\ pc[p] = "br_commit"
    /\ wallets' = CommittedWallets(p)
    /\ journal' = CommittedJournal(p)
    /\ tx' = [tx EXCEPT ![p] = NoTx]
    /\ Goto(p, "br_respond", loc[p])
    /\ UNCHANGED <<sessions, now, only, next_wallet_id, next_transaction_id, req, calls, faults>>

\* bet_result lines 233-236: the COMMIT fails (storage unavailable).
BrCommitFault(p) ==
    /\ pc[p] = "br_commit"
    /\ faults < MaxFaults
    /\ faults' = faults + 1
    /\ tx' = [tx EXCEPT ![p] = NoTx]
    /\ Finish(p, req[p], envelope_fail(500))
    /\ UNCHANGED <<sessions, now, only, wallets, journal, next_wallet_id, next_transaction_id, calls>>

\* The bet's external id preferred to the win's.
EchoExtBetFirst(l) ==
    IF Truthy(l.bet_ext) THEN l.bet_ext ELSE IF Truthy(l.win_ext) THEN l.win_ext ELSE <<>>

\* win_ext or bet_ext or ""
EchoExt(l) == IF Truthy(l.win_ext) THEN l.win_ext ELSE IF Truthy(l.bet_ext) THEN l.bet_ext ELSE <<>>

\* bet_result lines 238-249: fresh balance read and the OK envelope.
BrRespond(p) ==
    /\ pc[p] = "br_respond"
    /\ Finish(p, req[p], envelope_bet_ok(EchoExt(loc[p]), wallet_cents(req[p].userId, loc[p].currency)))
    /\ UNCHANGED <<sessions, now, only, wallets, journal, next_wallet_id, next_transaction_id, tx, calls, faults>>

\* -------------------------------------------------------------- refundBet
\* The original bet looked up by external id alone, whoever placed it.
OrigBetRowsAnyPlayer(u, bank, ctid) ==
    {row \in journal : row.external_transaction_id = ctid
                       /\ row.transaction_type = "bet" /\ row.bank_id = bank}

OrigBetRows(u, bank, ctid) ==
    {row \in journal : row.userId = u /\ row.external_transaction_id = ctid
                       /\ row.transaction_type = "bet" /\ row.bank_id = bank}

RefundRows(u, bank, ctid) ==
    {row \in journal : row.userId = u /\ row.external_transaction_id = ctid
                       /\ row.transaction_type = "refund" /\ row.bank_id = bank}

\* order_by(transaction_id.desc()).first()
LatestRow(rows) == CHOOSE row \in rows : \A o \in rows : o.transaction_id <= row.transaction_id

\* refund_bet lines 60-63: the line printed before the digests are compared,
\* as its three interpolated values.
RefundLogLine(r, pass_key) ==
    [concat |-> IntToStr(r.userId) \o r.casinoTransactionId \o pass_key,
     expected_md5 |-> md5_hex(IntToStr(r.userId) \o r.casinoTransactionId \o pass_key),
     provided |-> r.hash]

\* refund_bet lines 50-113: hash, original bet, existing refund (the two
\* SELECTs read the same snapshot).
RfStart(p, r) ==
    /\ Accept(p, r)
    /\ LET resolved_bank_id == resolve_bank_id(r.bankId)
           bank == get_bank_settings(resolved_bank_id)
           orig == OrigBetRows(r.userId, resolved_bank_id, r.casinoTransactionId)
           existing == RefundRows(r.userId, resolved_bank_id, r.casinoTransactionId)
       IN  IF ~RefundHashOk(r.userId, r.casinoTransactionId, bank.BSG_PASS_KEY, r.hash)
           THEN Finish(p, r, envelope_fail(401))
           ELSE IF orig = {}
           THEN Finish(p, r, envelope_fail(302))
           ELSE IF existing # {} /\ LatestRow(existing).status = "Processed"
           THEN Finish(p, r, envelope_ok({"response_inner_xml", "request_fields"},
                                         OkTransaction(IntToStr(LatestRow(existing).transaction_id))))
           ELSE /\ req' = [req EXCEPT ![p] = r]
                /\ Goto(p, "rf_lock",
                        [NoLoc EXCEPT !.bank_id = resolved_bank_id,
                                      !.currency = bank.BSG_DEFAULT_CURRENCY,
                                      !.amount = QuantizeHalfEven((CHOOSE row \in orig : TRUE).amount)])
    /\ UNCHANGED <<sessions, now, only, wallets, journal, next_wallet_id, next_transaction_id, tx, faults>>

\* refund_bet lines 116-124: SELECT ... FOR UPDATE of the wallet.
RfLock(p) ==
    /\ pc[p] = "rf_lock"
    /\ Blockers(p) = {}
    /\ LET u == req[p].userId
           c == loc[p].currency
       IN  IF WalletRows(u, c) = {}
           THEN Finish(p, req[p], envelope_fail(404)) /\ UNCHANGED tx
           ELSE /\ tx' = [tx EXCEPT ![p] = [@ EXCEPT !.lock = "X", !.wid = FirstWallet(u, c).wallet_id]]
                /\ Goto(p, "rf_insert", [loc[p] EXCEPT !.w_state = "persistent",
                                                      !.w_id = FirstWallet(u, c).wallet_id,
                                                      !.w_balance = FirstWallet(u, c).balance])
                /\ UNCHANGED req
    /\ UNCHANGED <<sessions, now, only, wallets, journal, next_wallet_id, next_transaction_id, calls, faults>>

\* refund_bet lines 127-143: INSERT of the Pending refund row.  The flush is
\* outside the try block: IntegrityError leaves the handler.
RfInsert(p) ==
    /\ pc[p] = "rf_insert"
    /\ Blockers(p) = {}
    /\ next_transaction_id' = next_transaction_id + 1
    /\ IF UniqueViolation(RefundKey(p))
       THEN /\ tx' = [tx EXCEPT ![p] = NoTx]
            /\ Finish(p, req[p], Raised)
       ELSE /\ tx' = [tx EXCEPT ![p] = [@ EXCEPT !.rows = @ \cup
                       {JournalRow(next_transaction_id, req[p].userId, loc[p].w_id, loc[p].bank_id,
                                   "refund", loc[p].amount, "Pending", req[p].casinoTransactionId)}]]
            /\ Goto(p, "rf_commit", [loc[p] EXCEPT !.refund_id = next_transaction_id])
            /\ UNCHANGED req
    /\ UNCHANGED <<sessions, now, only, wallets, journal, next_wallet_id, calls, faults>>

\* The refund marked Processed with the credit left out.
RefundWritesNoCredit(p) ==
    [tx[p] EXCEPT !.rows = {[row EXCEPT !.status = "Processed"] : row \in @}]

\* The wallet credited with the refund row left as it was inserted.
RefundWritesPending(p) ==
    LET nb == QuantizeHalfEven(loc[p].w_balance + loc[p].amount)
    IN  [tx[p] EXCEPT !.bal_has = (nb # loc[p].w_balance), !.bal = nb]

\* The refund's transaction as it commits: the wallet credited with the
\* original amount, the refund row marked Processed.
RefundWrites(p) ==
    LET nb == QuantizeHalfEven(loc[p].w_balance + loc[p].amount)
    IN  [tx[p] EXCEPT !.bal_has = (nb # loc[p].w_balance), !.bal = nb,
                      !.rows = {[row EXCEPT !.status = "Processed"] : row \in @}]

\* refund_bet lines 145-153: credit, mark Processed, COMMIT.
RfCommit(p) ==
    /\ pc[p] = "rf_commit"
    /\ LET t == RefundWrites(p)
       IN  /\ wallets' = {IF w.wallet_id = t.wid /\ t.bal_has THEN [w EXCEPT !.balance = t.bal] ELSE w :
                            w \in wallets}
           /\ journal' = journal \cup t.rows
    /\ tx' = [tx EXCEPT ![p] = NoTx]
    /\ Goto(p, "rf_respond", loc[p])
    /\ UNCHANGED <<sessions, now, only, next_wallet_id, next_transaction_id, req, calls, faults>>

\* refund_bet lines 155-156: the COMMIT fails and the transaction is rolled back.
RfCommitFault(p) ==
    /\ pc[p] = "rf_commit"
    /\ faults < MaxFaults
    /\ faults' = faults + 1
    /\ tx' = [tx EXCEPT ![p] = NoTx]
    /\ Goto(p, "rf_failed", loc[p])
    /\ UNCHANGED <<sessions, now, only, wallets, journal, next_wallet_id, next_transaction_id, req, calls>>

\* The detached refund row added again with the status it had when the
\* commit failed.
FailedRowAsFlushed(p) ==
    JournalRow(loc[p].refund_id, req[p].userId, loc[p].w_id, loc[p].bank_id,
               "refund", loc[p].amount, "Processed", req[p].casinoTransactionId)

\* The refund row as it is added again after the rollback.
FailedRow(p) ==
    JournalRow(loc[p].refund_id, req[p].userId, loc[p].w_id, loc[p].bank_id,
               "refund", loc[p].amount, "Failed", req[p].casinoTransactionId)

\* The Failed row written over whatever row has its dedupe key.
FailedJournalOverwriting(p) ==
    {row \in journal : DedupeKey(row) # RefundKey(p)} \cup {FailedRow(p)}

\* The journal after the INSERT of the Failed row and its COMMIT: a row
\* with the same dedupe key makes the INSERT fail, and the failure is dropped.
FailedJournal(p) ==
    IF UniqueViolation(RefundKey(p)) THEN journal ELSE journal \cup {FailedRow(p)}

\* refund_bet lines 157-167: the detached row is added again as Failed and
\* committed (best effort), then the failure envelope.
RfFailed(p) ==
    /\ pc[p] = "rf_failed"
    /\ Blockers(p) = {}
    /\ \E stored \in IF faults < MaxFaults THEN {TRUE, FALSE} ELSE {TRUE} :
          /\ faults' = IF stored THEN faults ELSE faults + 1
          /\ journal' = IF stored THEN FailedJournal(p) ELSE journal
    /\ Finish(p, req[p], envelope_fail(500))
    /\ UNCHANGED <<sessions, now, only, wallets, next_wallet_id, next_transaction_id, tx, calls>>

\* refund_bet lines 169-175: envelope_ok(response_inner_xml=...).
RfRespond(p) ==
    /\ pc[p] = "rf_respond"
    /\ Finish(p, req[p], envelope_ok({"response_inner_xml", "request_fields"},
                                     OkTransaction(IntToStr(loc[p].refund_id))))
    /\ UNCHANGED <<sessions, now, only, wallets, journal, next_wallet_id, next_transaction_id, tx, calls, faults>>

\* ------------------------------------------------------- lock failures
\* p is about to upgrade its shared wallet lock by an UPDATE.
Upgrading(p) ==
    /\ tx[p].lock = "S"
    /\ \/ pc[p] = "br_bet_upd" /\ ~IsNone(loc[p].bet_ext) /\ loc[p].bet_ok /\ BetChanges(p)
       \/ pc[p] = "br_win_upd" /\ WinChanges(p)

\* An upgrade of a shared wallet lock conflicts with an exclusive request
\* already queued on the row (a refund waiting in SELECT ... FOR UPDATE), and
\* that request waits for the shared lock: a deadlock.
QueueConflict(p) ==
    \E q \in Procs \ {p} :
        \/ Upgrading(p) /\ pc[q] = "rf_lock" /\ p \in Blockers(q)
        \/ Upgrading(q) /\ pc[p] = "rf_lock" /\ q \in Blockers(p)

\* What the handler does when its statement fails with OperationalError:
\* inside bet_result's and refund_bet's try blocks it is rolled back and
\* answered with code 500, anywhere else the exception leaves the handler.
LockFailure(p) ==
    /\ tx' = [tx EXCEPT ![p] = NoTx]
    /\ IF pc[p] \in {"br_bet_upd", "br_bet_ins", "br_win_upd", "br_win_ins", "rf_failed"}
       THEN Finish(p, req[p], envelope_fail(500))
       ELSE Finish(p, req[p], Raised)
    /\ UNCHANGED <<sessions, now, only, wallets, journal, next_wallet_id, next_transaction_id, calls>>

\* InnoDB's deadlock detection rolls back one transaction of the cycle.
Deadlock(p) ==
    /\ InCycle(p) \/ QueueConflict(p)
    /\ LockFailure(p)
    /\ UNCHANGED faults

\* innodb_lock_wait_timeout: a statement that waits too long fails.
LockTimeout(p) ==
    /\ Blockers(p) # {}
    /\ faults < MaxFaults
    /\ faults' = faults + 1
    /\ LockFailure(p)

\* ------------------------------------------- authenticate, balance, account
\* The authenticate deliveries: token, digest.
AuthCalls ==
    {<<<<"t", "1">>, "good">>, <<<<"t", "1">>, "upper">>, <<<<"t", "1">>, "bad">>,
     <<<<"t", "2">>, "good">>, <<<<"t", "x">>, "good">>, <<<<"t", "x">>, "bad">>,
     <<<<"t", "l">>, "good">>}

AuthRequests ==
    { [NoReq EXCEPT !.kind = "authenticate", !.bankId = 6111, !.token = t[1],
                    !.hash = HashAs(t[2], t[1])] : t \in AuthCalls }

\* A getBalance or getAccountInfo delivery; userId 0 stands for an absent userId.
UserRequest(kind, u, variant) ==
    [NoReq EXCEPT !.kind = kind, !.bankId = 6111, !.userId = u, !.hash = HashAs(variant, IntToStr(u))]

BalanceRequests ==
    { UserRequest("balance", t[1], t[2]) :
        t \in {<<0, "good">>, <<1, "good">>, <<1, "upper">>, <<1, "bad">>, <<1, "none">>, <<2, "good">>} }

AccountRequests ==
    { UserRequest("account", t[1], t[2]) :
        t \in {<<0, "good">>, <<1, "good">>, <<1, "bad">>, <<1, "none">>, <<3, "good">>,
               <<3, "bad">>} }

OkAccount(balance_cents) ==
    [NoResp EXCEPT !.result = "OK", !.has_balance = TRUE, !.balance = balance_cents]

\* authenticate.authenticate
AuthenticateResponse(r) ==
    LET bank == get_bank_settings(resolve_bank_id(r.bankId))
        payload == decode_token(r.token)
        uid == IF \A i \in 1..Len(payload.sub) : IsDigit(payload.sub[i])
               THEN DigitsToNat(payload.sub) ELSE payload.uid
        sess == {x \in sessions : x.userId = uid /\ x.token = r.token
                                      /\ x.session_type = "game" /\ x.provider = "bsg"
                                      /\ x.status = "active"}
    IN  IF bank.BSG_PROTOCOL # "xml" THEN envelope_fail(400)
        ELSE IF ~hash_ok_token(r.token, bank.BSG_PASS_KEY, r.hash) THEN envelope_fail(401)
        ELSE IF ~payload.valid THEN Raised
        ELSE IF uid = 0 THEN envelope_fail(401)
        ELSE IF sess = {} THEN envelope_fail(401)
        ELSE envelope_ok({"user_id", "username", "currency", "balance_cents", "request_fields"},
                         OkAccount(wallet_cents(uid, bank.BSG_DEFAULT_CURRENCY)))

\* balance.balance
BalanceResponse(r) ==
    LET bank == get_bank_settings(resolve_bank_id(r.bankId))
    IN  IF r.userId = 0 \/ ~Truthy(r.hash) THEN envelope_fail(400)
        ELSE IF ~hash_ok_user(r.userId, bank.BSG_PASS_KEY, r.hash) THEN envelope_fail(401)
        ELSE envelope_ok({"balance_cents", "request_fields"},
                         OkBalance(wallet_cents(r.userId, bank.BSG_DEFAULT_CURRENCY)))

\* The account lookup made before the digest check.
AccountResponsePlayerFirst(r) ==
    LET bank == get_bank_settings(resolve_bank_id(r.bankId))
    IN  IF r.userId = 0 \/ ~Truthy(r.hash) THEN envelope_fail(400)
        ELSE IF r.userId \notin Players THEN envelope_fail(404)
        ELSE IF ~hash_ok_user(r.userId, bank.BSG_PASS_KEY, r.hash) THEN envelope_fail(401)
        ELSE envelope_ok({"user_id", "username", "currency", "balance_cents", "request_fields"},
                         OkAccount(wallet_cents(r.userId, bank.BSG_DEFAULT_CURRENCY)))

\* account.account_info
AccountResponse(r) ==
    LET bank == get_bank_settings(resolve_bank_id(r.bankId))
    IN  IF r.userId = 0 \/ ~Truthy(r.hash) THEN envelope_fail(400)
        ELSE IF ~hash_ok_user(r.userId, bank.BSG_PASS_KEY, r.hash) THEN envelope_fail(401)
        ELSE IF r.userId \notin Players THEN envelope_fail(404)
        ELSE envelope_ok({"user_id", "username", "currency", "balance_cents", "request_fields"},
                         OkAccount(wallet_cents(r.userId, bank.BSG_DEFAULT_CURRENCY)))

Authenticate(p, r) ==
    /\ Accept(p, r)
    /\ Finish(p, r, AuthenticateResponse(r))
    /\ UNCHANGED <<sessions, now, only, wallets, journal, next_wallet_id, next_transaction_id, tx, faults>>

Balance(p, r) ==
    /\ Accept(p, r)
    /\ Finish(p, r, BalanceResponse(r))
    /\ UNCHANGED <<sessions, now, only, wallets, journal, next_wallet_id, next_transaction_id, tx, faults>>

Account(p, r) ==
    /\ Accept(p, r)
    /\ Finish(p, r, AccountResponse(r))
    /\ UNCHANGED <<sessions, now, only, wallets, journal, next_wallet_id, next_transaction_id, tx, faults>>

\* ------------------------------------------------------- specifications
BetResultSteps(p) ==
    \/ BrWallet(p) \/ BrWalletInsert(p) \/ BrBetUpdate(p) \/ BrBetInsert(p)
    \/ BrWin(p) \/ BrWinUpdate(p) \/ BrWinInsert(p) \/ BrCommit(p) \/ BrRespond(p)

RefundSteps(p) ==
    \/ RfLock(p) \/ RfInsert(p) \/ RfCommit(p) \/ RfRespond(p)

Next ==
    \E p \in Procs :
        \/ \E r \in BetRequests : BrStart(p, r)
        \/ \E r \in RefundRequests : RfStart(p, r)
        \/ \E r \in AuthRequests : Authenticate(p, r)
        \/ \E r \in BalanceRequests : Balance(p, r)
        \/ \E r \in AccountRequests : Account(p, r)
        \/ BetResultSteps(p)
        \/ RefundSteps(p)
        \/ BrCommitFault(p) \/ RfCommitFault(p) \/ RfFailed(p)
        \/ Deadlock(p) \/ LockTimeout(p)

Spec == Init /\ [][Next]_vars

\* One valid bet is delivered again and again, the deliveries overlapping
\* freely, and nothing else is delivered; the storage does not fail.
IdemRequests ==
    {r \in BetRequests : /\ BetHashOk(r, PassKey)
                         /\ _parse_amount_and_ext(r.bet).amt_ok
                         /\ ~IsNone(_parse_amount_and_ext(r.bet).ext)}

InitIdem == Started /\ only \in IdemRequests

NextIdem ==
    \E p \in Procs :
        \/ \E r \in IdemRequests : BrStart(p, r)
        \/ BetResultSteps(p)
        \/ Deadlock(p)

SpecIdem == InitIdem /\ [][NextIdem]_vars

\* The two betResult digest functions applied to one input: the endpoint's
\* _hash_for_bet_result and helpers.md5_hex_bet.
Win50wEncoded == <<"5", "0", "%", "7", "C", "w">>

FlagValues == {NoneStr, <<"t", "r", "u", "e">>, <<"T", "R", "U", "E">>,
               <<"f", "a", "l", "s", "e">>, <<"1">>}

HashInputs ==
    { [NoReq EXCEPT !.kind = "betResult", !.bankId = 6111, !.userId = u, !.bet = b, !.win = w,
                    !.isRoundFinished = f, !.roundId = rid, !.gameId = <<"g">>] :
        u \in Players, b \in {NoneStr, Bet80a, Bet80aEncoded}, w \in {NoneStr, Win50w, Win50wEncoded},
        f \in FlagValues, rid \in {NoneStr, <<"r">>} }

InitHash == Started /\ only \in HashInputs

\* Both functions are called on the input, with the bank's pass key.
ApplyHash ==
    /\ last = NoLast
    /\ last' = [req |-> only,
                resp |-> [endpoint |-> _hash_for_bet_result(only.userId, only.bet, only.win,
                                                            only.isRoundFinished, only.roundId,
                                                            only.gameId, PassKey),
                          helper |-> md5_hex_bet(only.userId, only.bet, only.win,
                                                 only.isRoundFinished, only.roundId,
                                                 only.gameId, PassKey)]]
    /\ UNCHANGED <<wallets, journal, next_wallet_id, next_transaction_id,
                   pc, req, loc, tx, only, calls, faults, sessions, now>>

NextHash == ApplyHash

SpecHash == InitHash /\ [][NextHash]_vars

\* ------------------------------------------------------ session lifecycle
MaxNow == 3

\* sessions.exp_from_jwt: the token's exp, None when the token does not decode.
exp_from_jwt(token) == IF decode_token(token).valid THEN decode_token(token).exp ELSE NoTime

\* sessions.should_refresh
should_refresh(token, threshold_minutes) ==
    LET exp == exp_from_jwt(token)
    IN  IF exp = NoTime THEN TRUE ELSE exp - now <= threshold_minutes

\* expire_if_past without its test of the status.
expire_if_past_closed(session_row) ==
    LET exp_dt == IF session_row.expires_at # NoTime THEN session_row.expires_at
                  ELSE exp_from_jwt(session_row.token)
    IN  IF exp_dt # NoTime /\ exp_dt <= now
        THEN [session_row EXCEPT !.status = "expired"]
        ELSE session_row

\* sessions.expire_if_past: the row as the call leaves it.
expire_if_past(session_row) ==
    IF session_row.status # "active" THEN session_row
    ELSE LET exp_dt == IF session_row.expires_at # NoTime THEN session_row.expires_at
                       ELSE exp_from_jwt(session_row.token)
         IN  IF exp_dt # NoTime /\ exp_dt <= now
             THEN [session_row EXCEPT !.status = "expired"]
             ELSE session_row

\* sessions.refresh_session_token_if_needed: the row as the call leaves it.
refresh_session_token_if_needed(session_row, ttl_minutes, threshold_minutes) ==
    IF session_row.status # "active" THEN session_row
    ELSE IF ~should_refresh(session_row.token, threshold_minutes) THEN session_row
    ELSE LET payload == decode_token(session_row.token)
             new_token == create_token([sub |-> payload.sub, uid |-> payload.uid,
                                        type |-> payload.type, provider |-> payload.provider,
                                        bankId |-> payload.bankId, gameId |-> payload.gameId],
                                       ttl_minutes)
         IN  [session_row EXCEPT !.token = new_token, !.expires_at = exp_from_jwt(new_token)]

\* The answers of POST /auth/logout: {"result": "ok"} and HTTPException(401).
LogoutOk == [NoResp EXCEPT !.result = "ok"]

LogoutInvalidToken == [NoResp EXCEPT !.result = "HTTP", !.code = 401]

\* auth.logout lines 57-61: the player the bearer token names, 0 when the
\* token does not decode or names none (the handler answers 401).
logout_uid(token) ==
    LET payload == decode_token(token)
    IN  IF ~payload.valid THEN 0
        ELSE IF payload.uid # 0 THEN payload.uid
        ELSE IF IntParses(payload.sub) THEN IntOf(payload.sub)
        ELSE 0

\* auth.logout lines 63-67: the active row of the player and the token.
logout_rows(token) ==
    {s \in sessions : s.userId = logout_uid(token) /\ s.token = token /\ s.status = "active"}

\* auth.logout lines 68-76: the table after the call.
logout_sessions(token) ==
    IF logout_uid(token) = 0 \/ logout_rows(token) = {} THEN sessions
    ELSE LET s == CHOOSE x \in logout_rows(token) :
                     \A y \in logout_rows(token) : x.session_id <= y.session_id
         IN  (sessions \ {s}) \cup {[s EXCEPT !.status = "logged_out"]}

\* Tokens a caller may present: those issued at login and those the rows hold.
PresentableTokens == Tokens \cup {s.token : s \in sessions}

LogoutRequest(token) == [NoReq EXCEPT !.kind = "logout", !.token = token]

\* The settlement state does not change in a session step.
SettlementUnchanged ==
    UNCHANGED <<wallets, journal, next_wallet_id, next_transaction_id,
                pc, req, loc, tx, only, calls, faults>>

\* The clock advances.
Tick ==
    /\ now < MaxNow
    /\ now' = now + 1
    /\ last' = NoLast
    /\ UNCHANGED sessions
    /\ SettlementUnchanged

\* sessions.expire_if_past is called on the row with the given id.
ExpireIfPast(id) ==
    /\ sessions' = {IF s.session_id = id THEN expire_if_past(s) ELSE s : s \in sessions}
    /\ last' = NoLast
    /\ UNCHANGED now
    /\ SettlementUnchanged

\* sessions.cleanup_user_active_sessions(user_id)
CleanupUser(u) ==
    /\ sessions' = {IF s.userId = u /\ s.status = "active" THEN expire_if_past(s) ELSE s : s \in sessions}
    /\ last' = NoLast
    /\ UNCHANGED now
    /\ SettlementUnchanged

\* refresh_session_token_if_needed is called on the row with the given id.
Refresh(id) ==
    /\ sessions' = {IF s.session_id = id
                    THEN refresh_session_token_if_needed(s, RefreshTtl, RefreshThreshold)
                    ELSE s : s \in sessions}
    /\ last' = NoLast
    /\ UNCHANGED now
    /\ SettlementUnchanged

\* POST /auth/logout with the bearer token.
Logout(token) ==
    /\ sessions' = logout_sessions(token)
    /\ last' = [req |-> LogoutRequest(token),
                resp |-> IF logout_uid(token) = 0 THEN LogoutInvalidToken ELSE LogoutOk]
    /\ UNCHANGED now
    /\ SettlementUnchanged

\* The authenticate deliveries that present a token with its digest.
SessionAuthRequests ==
    { [NoReq EXCEPT !.kind = "authenticate", !.bankId = 6111, !.token = t, !.hash = HashAs(v, t)] :
        t \in PresentableTokens, v \in {"good", "bad"} }

InitSess == Init

NextSess ==
    \/ Tick
    \/ \E s \in sessions : ExpireIfPast(s.session_id)
    \/ \E u \in Players : CleanupUser(u)
    \/ \E s \in sessions : Refresh(s.session_id)
    \/ \E token \in PresentableTokens : Logout(token)
    \/ \E p \in Procs : \E r \in SessionAuthRequests : Authenticate(p, r)

SpecSess == InitSess /\ [][NextSess]_vars

\* ---------------------------------------------------------------- claims
\* The balance, in minor units, player u starts with.
StartCents(u) ==
    IF \E w \in InitWallets : w.userId = u
    THEN IntTimes100((CHOOSE w \in InitWallets : w.userId = u).balance)
    ELSE 0

\* The amount in minor units and the external id of a "<amount>|<id>" value.
AmountOf(value) ==
    LET v == unquote_plus(value)
    IN  IF Truthy(value) THEN IntOf(SubSeq(v, 1, FirstBar(v) - 1)) ELSE 0

ExtOf(value) ==
    LET v == unquote_plus(value)
    IN  SubSeq(v, FirstBar(v) + 1, Len(v))

\* The balance after betResult r was settled once and nothing else was.
SettledOnceCents(r) == StartCents(r.userId) - AmountOf(r.bet) + AmountOf(r.win)

\* C1: when one valid bet is delivered N times, overlapping or not, and no
\* other callback is, every delivery is answered RESULT=OK with the same
\* EXTSYSTEMTRANSACTIONID and the BALANCE of the bet debited exactly once.
C1_IdempotentBet ==
    (only # NoReq /\ last.req = only)
        => last.resp = envelope_bet_ok(IF Truthy(only.win) THEN ExtOf(only.win) ELSE ExtOf(only.bet),
                                       SettledOnceCents(only))

\* The balance wallet row id starts with.
StartBalance(id) ==
    IF \E w \in InitWallets : w.wallet_id = id
    THEN (CHOOSE w \in InitWallets : w.wallet_id = id).balance
    ELSE 0

\* A journal amount as it counts for the wallet: a bet negative, a win or a
\* refund positive.
SignedAmount(row) == IF row.transaction_type = "bet" THEN 0 - row.amount ELSE row.amount

RECURSIVE SumSigned(_)
SumSigned(rows) ==
    IF rows = {} THEN 0
    ELSE LET row == CHOOSE x \in rows : TRUE
         IN  SignedAmount(row) + SumSigned(rows \ {row})

ProcessedOf(id) == {row \in journal : row.wallet_id = id /\ row.status = "Processed"}

\* C2: in every committed state each wallet's balance is its starting
\* balance plus the signed amounts of the wallet's Processed journal rows.
C2_Conservation ==
    \A w \in wallets : w.balance = StartBalance(w.wallet_id) + SumSigned(ProcessedOf(w.wallet_id))

\* The Processed journal rows of a dedupe key.
ProcessedIn(rows, u, bank, type, ext) ==
    {row \in rows : DedupeKey(row) = <<u, bank, type, ext>> /\ row.status = "Processed"}

ProcessedRows(u, bank, type, ext) == ProcessedIn(journal, u, bank, type, ext)

\* C3: a betResult that carries a bet and a win settles each side on its own:
\* once it is answered RESULT=OK, the bet's key and the win's key each have a
\* Processed journal row, whether or not the other side was a duplicate.
C3_SidesIndependent ==
    (last.req.kind = "betResult" /\ Truthy(last.req.bet) /\ Truthy(last.req.win)
     /\ last.resp.result = "OK")
        => /\ ProcessedRows(last.req.userId, last.req.bankId, "bet", ExtOf(last.req.bet)) # {}
           /\ ProcessedRows(last.req.userId, last.req.bankId, "win", ExtOf(last.req.win)) # {}

\* The insert of callback p is about to be rejected by the journal's unique
\* index because of a row with the given status.
HitsConflict(p, status) ==
    /\ Blockers(p) = {}
    /\ \E row \in journal :
          /\ row.status = status
          /\ \/ pc[p] = "br_bet_ins" /\ DedupeKey(row) = BetKey(p)
             \/ pc[p] = "br_win_ins" /\ DedupeKey(row) = WinKey(p)
             \/ pc[p] = "rf_insert" /\ DedupeKey(row) = RefundKey(p)

\* C5: the callback that loses a dedupe-key race to a committed Processed row
\* is not ended by the conflict with a failure envelope or an exception: if
\* the conflicting insert ends the callback, the answer is RESULT=OK.
C5_LoserAnsweredOk ==
    [][\A p \in Procs :
          (HitsConflict(p, "Processed") /\ pc'[p] = "idle") => last'.resp.result = "OK"]_vars

\* C6: a Failed journal row does not block a retry: when a callback's insert
\* finds only a Failed row under its dedupe key, the new attempt is created
\* and the callback goes on to settle it.
C6_RetryAfterFailed ==
    [][\A p \in Procs :
          (HitsConflict(p, "Failed") /\ ~HitsConflict(p, "Processed") /\ pc'[p] # pc[p])
              => pc'[p] = "rf_commit"]_vars

\* C10: every outcome of every callback is delivered as a RESULT=OK or
\* RESULT=FAILED envelope, never as an exception that leaves the handler.
C10_AlwaysEnvelope == last.resp.result \in {"none", "OK", "FAILED"}

\* refundBet p is about to lose to the Processed refund row of its key.
RefundLoser(p) == pc[p] = "rf_insert" /\ HitsConflict(p, "Processed")

\* The journal has at most one Processed refund row per dedupe key.
OneRefundPerKey ==
    \A r1, r2 \in journal :
        (r1.transaction_type = "refund" /\ r1.status = "Processed" /\ r2.status = "Processed"
         /\ DedupeKey(r1) = DedupeKey(r2)) => r1 = r2

\* C4: however many refundBet callbacks share a dedupe key and however they
\* overlap, at most one refund row of the key is Processed, and a refundBet
\* changes a balance only in the step that creates that one row.
C4_RefundOnce ==
    [][/\ OneRefundPerKey'
       /\ \A p \in Procs :
            (req[p].kind = "refundBet" /\ pc'[p] # pc[p] /\ wallets' # wallets)
                => /\ ProcessedRows(req[p].userId, loc[p].bank_id, "refund",
                                    req[p].casinoTransactionId) = {}
                   /\ Cardinality(ProcessedIn(journal', req[p].userId, loc[p].bank_id, "refund",
                                              req[p].casinoTransactionId)) = 1]_vars

\* Two refundBet deliveries of one key overlapped: one is Processed, the
\* other is about to be rejected by the unique index.
C4_Witness == \E p \in Procs : RefundLoser(p)

\* The text each callback kind signs, and the digest over it and the secret.
SignedText(r) ==
    IF r.kind = "authenticate" THEN r.token
    ELSE IF r.kind = "betResult"
    THEN BetSigned(r.userId, r.bet, r.win, r.isRoundFinished, r.roundId, r.gameId)
    ELSE IF r.kind = "refundBet" THEN IntToStr(r.userId) \o r.casinoTransactionId
    ELSE IF r.userId = 0 THEN <<>> ELSE IntToStr(r.userId)

\* The supplied digest matches the canonical one (compared without case).
DigestMatches(r) == Truthy(r.hash) /\ HexLower(r.hash) = md5_hex(SignedText(r) \o PassKey)

\* The step answers a callback whose digest does not match.
MismatchAnswered == last'.req.kind # "none" /\ ~DigestMatches(last'.req)

\* The parameters the handlers require before they look at the digest.
HasParameters(r) ==
    IF r.kind = "betResult" THEN Truthy(r.bet) \/ Truthy(r.win)
    ELSE IF r.kind \in {"balance", "account"} THEN r.userId # 0 /\ Truthy(r.hash)
    ELSE IF r.kind = "authenticate"
    THEN get_bank_settings(resolve_bank_id(r.bankId)).BSG_PROTOCOL = "xml"
    ELSE TRUE

C8_RefundNeedsOriginal ==
    [][(/\ last'.req.kind = "refundBet" /\ DigestMatches(last'.req)
        /\ ProcessedRows(last'.req.userId, last'.req.bankId, "bet",
                         last'.req.casinoTransactionId) = {})
          => (last'.resp = Failed(302) /\ wallets' = wallets /\ journal' = journal)]_vars

\* A refundBet is answered 302 although another player settled a bet under
\* the same external id.
C8_Witness ==
    /\ last.req.kind = "refundBet" /\ DigestMatches(last.req)
    /\ last.resp = Failed(302)
    /\ \E row \in journal : /\ row.transaction_type = "bet"
                            /\ row.external_transaction_id = last.req.casinoTransactionId
                            /\ row.userId # last.req.userId

\* The wallets with the amount of journal row b credited to b's wallet.
Credited(ws, b) ==
    {IF w.wallet_id = b.wallet_id THEN [w EXCEPT !.balance = @ + b.amount] ELSE w : w \in ws}

\* C9: the step of a refundBet that creates the Processed refund row credits
\* the wallet with exactly the amount of the original bet's journal row, and
\* no other step of a refundBet changes a balance: a bet and its refund
\* cancel out, and repeated refunds leave the balance where it is.
C9_RoundTrip ==
    [][\A p \in Procs :
          (req[p].kind = "refundBet" /\ pc'[p] # pc[p])
              => LET u == req[p].userId
                     c == req[p].casinoTransactionId
                     bets == ProcessedRows(u, loc[p].bank_id, "bet", c)
                 IN  IF ProcessedIn(journal', u, loc[p].bank_id, "refund", c)
                          # ProcessedRows(u, loc[p].bank_id, "refund", c)
                     THEN \E b \in bets : wallets' = Credited(wallets, b)
                     ELSE wallets' = wallets]_vars

\* A bet, its refund and a repeated refund were delivered: the refund row
\* carries the bet's amount and the wallet is back at its starting balance.
C9_Witness ==
    /\ last.req.kind = "refundBet" /\ calls = 3
    /\ \E b, r \in journal :
          /\ journal = {b, r}
          /\ b.transaction_type = "bet" /\ r.transaction_type = "refund"
          /\ r.status = "Processed" /\ r.amount = b.amount
          /\ r.external_transaction_id = last.req.casinoTransactionId
          /\ r.transaction_id < next_transaction_id - 1
    /\ \A w \in wallets : w.balance = StartBalance(w.wallet_id)

\* A settlement value that, URL-decoded, has the form
\* "<integer minor units>|<external id>".
WellFormed(value) ==
    LET v == unquote_plus(value)
    IN  /\ FirstBar(v) > 0
        /\ IntParses(SubSeq(v, 1, FirstBar(v) - 1))
        /\ SubSeq(v, FirstBar(v) + 1, Len(v)) # <<>>

\* The bet or the win of request r is present but malformed.
Malformed(r) ==
    \/ Truthy(r.bet) /\ ~WellFormed(r.bet)
    \/ Truthy(r.win) /\ ~WellFormed(r.win)

\* C11: a betResult whose bet or win is present but malformed is answered
\* RESULT=FAILED with code 400, never RESULT=OK (a storage or lock failure
\* that ends the callback first is not counted against it).
C11_MalformedRejected ==
    (last.req.kind = "betResult" /\ DigestMatches(last.req) /\ Malformed(last.req))
        => last.resp \in {Failed(400), Failed(500), Raised}

\* The balance a transaction's wallet has in the committed table (zero for a
\* wallet the transaction has inserted itself).
CommittedBalance(p) == IF tx[p].new_wallet THEN 0 ELSE WalletById(tx[p].wid).balance

\* C12: there is no insufficient-funds rejection: a valid, non-duplicate bet
\* is applied to the wallet whatever its balance (the debited balance, negative
\* or not, is what the transaction writes), and the BALANCE of an OK answer is
\* the committed balance in minor units, negative when the wallet is overdrawn.
C12_NoFundsCheck ==
    /\ \A p \in Procs :
          pc[p] = "br_bet_ins"
              => /\ tx[p].lock = "X" /\ tx[p].bal_has
                 /\ tx[p].bal = CommittedBalance(p) - DecFromCents(loc[p].bet_cents)
    /\ (last.req.kind = "betResult" /\ last.resp.result = "OK"
            /\ WalletRows(last.req.userId, "USD") # {})
          => /\ last.resp.has_balance
             /\ last.resp.balance * 100 = FirstWallet(last.req.userId, "USD").balance

\* A bet on an empty wallet is journaled, and answered OK with a negative BALANCE.
C12_Witness ==
    /\ last.req.kind = "betResult" /\ last.resp.result = "OK" /\ last.resp.balance < 0
    /\ ProcessedRows(last.req.userId, 6111, "bet", ExtOf(last.req.bet)) # {}

\* The callback answered by the last step was a first touch of its wallet:
\* a betResult past the parameter and digest checks, answered while its
\* (player, currency) pair still has no committed wallet row.
FirstTouchAnswered ==
    /\ last.req.kind = "betResult"
    /\ HasParameters(last.req) /\ DigestMatches(last.req)
    /\ WalletRows(last.req.userId, "USD") = {}

\* C13: wallet get-or-create is safe under concurrent first touch: there is
\* at most one wallet row per (player, currency) pair, and when no storage
\* failure or lock timeout has happened no first-touch callback is answered
\* with an error (RESULT=FAILED or an exception leaving the handler).
C13_FirstTouchSafe ==
    /\ \A u \in Players : Cardinality(WalletRows(u, "USD")) <= 1
    /\ (FirstTouchAnswered /\ faults = 0) => last.resp.result \notin {"FAILED", "EXCEPTION"}

\* C14: settlements on the same wallet are serialized: no two open
\* transactions hold the row lock of the same wallet at the same time.
C14_Serialized ==
    \A p, q \in Procs :
        (p # q /\ tx[p].lock # "none" /\ tx[q].lock # "none") => tx[p].wid # tx[q].wid

\* C15: every write to a wallet balance is made by a transaction that has
\* held that wallet's row lock since it read the balance it writes from: a
\* handler about to update the balance of a loaded wallet holds the lock,
\* also for the win credit after a duplicate bet has rolled the transaction
\* back.
C15_WriteUnderLock ==
    \A p \in Procs :
        (pc[p] = "br_win_upd" /\ WinChanges(p) /\ loc[p].w_state = "persistent")
            => (tx[p].lock # "none" /\ tx[p].wid = loc[p].w_id)

\* The statement the handler is at acquires the wallet's row lock.
AcquiresWalletLock(p) == pc[p] \in {"br_wallet", "br_bet_upd", "br_win_upd", "rf_lock"}

\* C16: a settlement callback that cannot acquire the wallet lock (lock
\* timeout or deadlock) is answered with a RESULT=FAILED envelope, its
\* transaction is rolled back, and the wallets and the journal are as they were.
C16_LockFailureEnvelope ==
    [][\A p \in Procs :
          (AcquiresWalletLock(p) /\ (Deadlock(p) \/ LockTimeout(p)))
              => /\ last'.resp.result = "FAILED"
                 /\ tx'[p] = NoTx /\ wallets' = wallets /\ journal' = journal]_vars

\* C17: no Pending row outlives its transaction: no committed journal row
\* has status Pending, whatever callbacks have succeeded or failed.
C17_NoPendingCommitted == \A row \in journal : row.status # "Pending"

\* A refund whose commit failed has been rolled back and recorded Failed,
\* next to the Processed row of the bet it refers to.
C17_Witness ==
    /\ \E row \in journal : row.transaction_type = "refund" /\ row.status = "Failed"
    /\ \E row \in journal : row.transaction_type = "bet" /\ row.status = "Processed"
    /\ faults > 0

\* C18: a committed journal row whose status is Processed or Failed is never
\* modified or deleted: every step keeps it as it is, and no other row takes
\* its transaction id.
C18_TerminalRowsKept ==
    [][\A row \in journal :
          row.status \in {"Processed", "Failed"}
              => /\ row \in journal'
                 /\ \A other \in journal' : other.transaction_id = row.transaction_id => other = row]_vars

\* A refundBet has been retried on a key whose refund row is Failed, and the
\* Failed row is still there.
C18_Witness ==
    /\ last.req.kind = "refundBet" /\ last.resp = Raised
    /\ \E row \in RefundRows(last.req.userId, 6111, last.req.casinoTransactionId) : row.status = "Failed"

\* The committed Processed rows an OK answer stands on: for a betResult the
\* rows of the player whose external id is the one echoed, for a refundBet
\* the refund row whose transaction id is the one returned.
SettledRows(rq, resp) ==
    IF rq.kind = "betResult"
    THEN {row \in journal : /\ row.status = "Processed" /\ row.userId = rq.userId
                            /\ row.transaction_type \in {"bet", "win"}
                            /\ row.external_transaction_id = resp.ext}
    ELSE {row \in journal : /\ row.status = "Processed" /\ row.userId = rq.userId
                            /\ row.transaction_type = "refund"
                            /\ IntToStr(row.transaction_id) = resp.ext}

\* C19: whenever betResult or refundBet answers RESULT=OK, a committed
\* Processed journal row exists for the external transaction the answer
\* echoes, and the BALANCE of a betResult answer is the committed balance.
C19_OkOnlyWhenProcessed ==
    (last.req.kind \in {"betResult", "refundBet"} /\ last.resp.result = "OK")
        => /\ SettledRows(last.req, last.resp) # {}
           /\ last.resp.has_balance
                 => last.resp.balance = wallet_cents(last.req.userId, "USD")

\* C20: an authenticate whose digest is correct but whose token fails
\* verification (bad signature or expired) is answered RESULT=FAILED with
\* code 401, and the digest is checked before the token: a wrong digest is
\* answered with the invalid-hash failure whatever the token.
C20_InvalidToken ==
    last.req.kind = "authenticate"
        => /\ ~DigestMatches(last.req) => last.resp = Failed(401)
           /\ (DigestMatches(last.req) /\ ~decode_token(last.req.token).valid)
                 => last.resp = Failed(401)

\* The conditions under which authenticate may answer OK: the digest
\* matches, the token verifies and is a game token, and an active game
\* session row has the token's player, the exact token and the resolved bank.
MayAuthenticate(r) ==
    LET payload == decode_token(r.token)
    IN  /\ DigestMatches(r)
        /\ payload.valid /\ payload.type = "game"
        /\ \E x \in sessions :
              /\ IntToStr(x.userId) = payload.sub /\ x.token = r.token
              /\ x.status = "active" /\ x.bankId = resolve_bank_id(r.bankId)

\* C21: authenticate answers RESULT=OK only if the token is a game token and
\* an active session row matches its player, the exact token and the
\* resolved bank; in every other case it answers RESULT=FAILED.
C21_AuthenticateOnlyGame ==
    last.req.kind = "authenticate"
        => /\ last.resp.result = "OK" => MayAuthenticate(last.req)
           /\ ~MayAuthenticate(last.req) => last.resp.result = "FAILED"

\* C22: a Balance callback with a valid hash is answered RESULT=OK with the
\* balance of the player's wallet in the bank's default currency, and after
\* the callback that wallet exists (created with balance 0 when it was absent).
C22_BalanceCreatesWallet ==
    (last.req.kind = "balance" /\ last.req.userId # 0 /\ DigestMatches(last.req))
        => /\ last.resp = OkBalance(wallet_cents(last.req.userId, "USD"))
           /\ WalletRows(last.req.userId, "USD") # {}

\* The answer C23 describes for an account request r.
AccountAnswer(r) ==
    IF r.userId = 0 \/ ~Truthy(r.hash) THEN Failed(400)
    ELSE IF ~DigestMatches(r) THEN Failed(401)
    ELSE IF r.userId \notin Players THEN Failed(404)
    ELSE OkAccount(wallet_cents(r.userId, "USD"))

\* C23: account reports errors in a fixed order (missing userId or hash 400,
\* wrong hash 401, unknown player 404), answers RESULT=OK with the balance
\* only when all three checks pass, and changes no wallet and no journal row.
C23_AccountOrder ==
    [][last'.req.kind = "account"
          => /\ last'.resp = AccountAnswer(last'.req)
             /\ wallets' = wallets /\ journal' = journal]_vars

\* An unknown player with a matching digest is answered 404 after
\* settlements have been journaled.
C23_Witness ==
    /\ last.req.kind = "account" /\ DigestMatches(last.req) /\ last.req.userId \notin Players
    /\ last.resp = Failed(404)
    /\ journal # {}

\* The URL-decoded value carries an external id after its separator.
CarriesExt(value) == Truthy(value) /\ FirstBar(unquote_plus(value)) > 0 /\ ExtOf(value) # <<>>

\* C24: the EXTSYSTEMTRANSACTIONID of a betResult answered OK is the win's
\* external id whenever the request carries a win with an external id, and
\* the bet's external id otherwise; the BALANCE is the wallet's committed
\* balance in minor units.
C24_EchoPrefersWin ==
    (last.req.kind = "betResult" /\ last.resp.result = "OK")
        => /\ last.resp.ext = IF CarriesExt(last.req.win) THEN ExtOf(last.req.win)
                              ELSE IF CarriesExt(last.req.bet) THEN ExtOf(last.req.bet)
                              ELSE <<>>
           /\ last.resp.has_balance
           /\ last.resp.balance = wallet_cents(last.req.userId, "USD")

\* A request with a bet and a win, both settled, is answered with the win's id.
C24_Witness ==
    /\ last.req.kind = "betResult" /\ last.resp.result = "OK"
    /\ CarriesExt(last.req.bet) /\ CarriesExt(last.req.win)
    /\ last.resp.ext = ExtOf(last.req.win) /\ last.resp.ext # ExtOf(last.req.bet)
    /\ ProcessedRows(last.req.userId, 6111, "bet", ExtOf(last.req.bet)) # {}
    /\ ProcessedRows(last.req.userId, 6111, "win", ExtOf(last.req.win)) # {}

\* The digest of betResult r was computed over its bet and win as they
\* arrive, and decoding changes one of them.
SignedOverEncoded(r) ==
    /\ r.kind = "betResult"
    /\ HexLower(r.hash) = md5_hex(BetSignedEncoded(r.userId, r.bet, r.win, r.roundId, r.gameId) \o PassKey)
    /\ BetSignedEncoded(r.userId, r.bet, r.win, r.roundId, r.gameId) # SignedText(r)

\* C25: betResult verifies the digest against the URL-decoded bet and win: a
\* request signed over the still-encoded value is answered with the
\* invalid-hash failure and never gets past the digest check (it writes
\* nothing), and every request that gets past it matches the decoded text.
C25_DecodeBeforeHash ==
    /\ SignedOverEncoded(last.req) => last.resp = Failed(401)
    /\ \A p \in Procs :
          req[p].kind = "betResult" => (DigestMatches(req[p]) /\ ~SignedOverEncoded(req[p]))

\* The encoded bet signed over its encoded form is rejected after the same
\* bet, signed over its decoded form, was settled.
C25_Witness ==
    /\ SignedOverEncoded(last.req) /\ last.resp = Failed(401)
    /\ ProcessedRows(last.req.userId, 6111, "bet", ExtOf(last.req.bet)) # {}

\* The text C26 describes: player id, decoded bet, decoded win, the flag in
\* lower case (nothing when absent), round id, game id.
CanonicalBetText(r) ==
    IntToStr(r.userId)
        \o (IF Truthy(r.bet) THEN unquote_plus(r.bet) ELSE <<>>)
        \o (IF Truthy(r.win) THEN unquote_plus(r.win) ELSE <<>>)
        \o (IF IsNone(r.isRoundFinished) THEN <<>> ELSE LowerFlag(r.isRoundFinished))
        \o (IF IsNone(r.roundId) THEN <<>> ELSE r.roundId)
        \o (IF IsNone(r.gameId) THEN <<>> ELSE r.gameId)

\* C26: for every input the endpoint's digest is the digest of player id +
\* bet + win + isRoundFinished + round id + game id + secret, and the helper
\* md5_hex_bet computes the same value.
C26_DigestFunctionsAgree ==
    last # NoLast
        => /\ last.resp.endpoint = md5_hex(CanonicalBetText(last.req) \o PassKey)
           /\ last.resp.helper = last.resp.endpoint

\* Text sub occurs in text s.
Contains(s, sub) ==
    \E i \in 1..(Len(s) - Len(sub) + 1) : SubSeq(s, i, i + Len(sub) - 1) = sub

\* C27: the bank's shared secret never appears in what a callback writes to
\* its log output: no step that starts a refundBet prints text with the
\* pass key in it, whether the digest matches or not.
C27_NoSecretInLog ==
    [][\A p \in Procs : \A r \in RefundRequests :
          RfStart(p, r) => ~Contains(RefundLogLine(r, PassKey).concat, PassKey)]_vars

\* C28: a callback whose bankId does not name a configured bank is rejected
\* as a hard error: it is never answered RESULT=OK, and no handler goes on
\* to serve it under another bank's secret, currency or journal scope.
C28_UnknownBankRejected ==
    /\ (last.req.kind # "none" /\ last.req.bankId \notin AvailableBanks)
          => last.resp.result # "OK"
    /\ \A p \in Procs : req[p].kind # "none" => req[p].bankId \in AvailableBanks

\* The handler in slot p has made the journal lookup for its dedupe key:
\* refund_bet is past its two SELECTs; bet_result has no statement that
\* reads the journal.
LookedUp(p) == pc[p] \in {"rf_lock", "rf_insert", "rf_commit", "rf_failed", "rf_respond"}

\* C29: in every execution of betResult and refundBet the idempotency
\* lookup for the dedupe key comes before the wallet row lock is taken and
\* before a journal row for the key is created: a transaction that holds a
\* wallet lock or an uncommitted journal row has made the lookup.
C29_LookupFirst ==
    \A p \in Procs : (tx[p].lock # "none" \/ tx[p].rows # {}) => LookedUp(p)

\* The dedupe keys of the journal rows the attempt in slot p has opened and
\* not committed (a refund that was rolled back still has its row to record).
OpenedKeys(p) ==
    {DedupeKey(row) : row \in tx[p].rows} \cup (IF pc[p] = "rf_failed" THEN {RefundKey(p)} ELSE {})

\* C30: when a settlement attempt that has opened a journal row fails before
\* its commit, the caller is answered RESULT=FAILED and the journal records
\* the attempt as a Failed row of its key, for betResult and for refundBet.
C30_FailureRecorded ==
    [][\A p \in Procs :
          (pc[p] # "idle" /\ pc'[p] = "idle" /\ OpenedKeys(p) # {})
              => /\ last'.resp.result = "FAILED"
                 /\ \A key \in OpenedKeys(p) :
                       \E row \in journal' : DedupeKey(row) = key /\ row.status = "Failed"]_vars

\* The committed journal rows that count as settled.
ProcessedJournal(rows) == {row \in rows : row.status = "Processed"}

\* The statements a handler reaches only after its COMMIT has succeeded.
AfterCommit == {"br_respond", "rf_respond"}

\* C31: whenever betResult or refundBet is answered RESULT=FAILED, nothing of
\* that callback is committed as settled: the answering step leaves every
\* wallet balance and the set of Processed journal rows as they were, and the
\* handler that answers has not committed its transaction before.
C31_AtomicOnFailure ==
    [][(last'.req.kind \in {"betResult", "refundBet"} /\ last'.resp.result = "FAILED")
          => /\ wallets' = wallets
             /\ ProcessedJournal(journal') = ProcessedJournal(journal)
             /\ \A p \in Procs : pc'[p] # pc[p] => pc[p] \notin AfterCommit]_vars

\* A refundBet whose commit failed is answered 500: its row is recorded
\* Failed and the wallet still has the bet debited and nothing credited.
C31_Witness ==
    /\ last.req.kind = "refundBet" /\ last.resp = Failed(500)
    /\ \E row \in RefundRows(last.req.userId, 6111, last.req.casinoTransactionId) : row.status = "Failed"
    /\ ProcessedRows(last.req.userId, 6111, "bet", last.req.casinoTransactionId) # {}
    /\ wallet_cents(last.req.userId, "USD") = StartCents(last.req.userId) - 80

\* The committed balance of wallet row id (zero for a row not yet committed).
BalanceIn(ws, id) ==
    IF \E w \in ws : w.wallet_id = id THEN (CHOOSE w \in ws : w.wallet_id = id).balance ELSE 0

\* C32: sign discipline.  A commit that journals only bets does not increase
\* the wallet balance, one that journals only wins or refunds does not
\* decrease it, and the rows a commit marks Processed change the wallet by
\* exactly their signed amounts (a bet negative, a win or refund positive).
C32_SignDiscipline ==
    [][\A p \in Procs :
          (pc[p] \in {"br_commit", "rf_commit"} /\ pc'[p] \in AfterCommit)
              => LET rows == ProcessedJournal(journal' \ journal)
                     id == tx[p].wid
                     delta == BalanceIn(wallets', id) - BalanceIn(wallets, id)
                 IN  /\ (\A row \in rows : row.transaction_type = "bet") => delta <= 0
                     /\ (\A row \in rows : row.transaction_type # "bet") => delta >= 0
                     /\ delta = SumSigned(rows)]_vars

\* C33: a betResult with neither bet nor win is answered RESULT=FAILED with
\* code 400 whatever its hash, in the step that receives it: no wallet is
\* created, no journal row written and no transaction opened.
C33_NeitherBetNorWin ==
    [][(last'.req.kind = "betResult" /\ ~Truthy(last'.req.bet) /\ ~Truthy(last'.req.win))
          => /\ last'.resp = Failed(400)
             /\ wallets' = wallets /\ journal' = journal
             /\ tx' = tx /\ next_wallet_id' = next_wallet_id
             /\ next_transaction_id' = next_transaction_id]_vars

\* A player without a wallet sends neither bet nor win under a wrong hash:
\* the answer is 400 and the player still has no wallet.
C33_Witness ==
    /\ last.req.kind = "betResult" /\ ~Truthy(last.req.bet) /\ ~Truthy(last.req.win)
    /\ ~DigestMatches(last.req)
    /\ last.resp = Failed(400)
    /\ WalletRows(last.req.userId, "USD") = {}

\* A committed journal row has the dedupe key.
Journaled(rows, key) == \E row \in rows : DedupeKey(row) = key

\* C34: dedupe scope.  A settlement is treated as a duplicate only when a
\* committed row has its player, resolved bank, kind and external id: a
\* handler that goes on after an insert has either kept the row it inserted
\* or found its key journaled, and a settlement sharing only the external
\* id never suppresses another: when the win of a betResult is inserted
\* under the external id of the bet the handler has opened, the handler
\* goes on with the bet row kept.  Handlers that stop with a failure are not
\* counted.
C34_DedupeScope ==
    [][\A p \in Procs :
          (pc[p] # "idle" /\ pc'[p] \notin {"idle", "rf_failed"} /\ pc'[p] # pc[p])
              => /\ pc[p] = "br_bet_ins"
                      => (Journaled(tx'[p].rows, BetKey(p)) \/ Journaled(journal, BetKey(p)))
                 /\ pc[p] = "br_win_ins"
                      => (Journaled(tx'[p].rows, WinKey(p)) \/ Journaled(journal, WinKey(p)))
                 /\ \A row \in tx[p].rows :
                       (pc[p] = "br_win_ins" /\ row.external_transaction_id = loc[p].win_ext)
                           => Journaled(tx'[p].rows, DedupeKey(row))]_vars

\* C35: once the key of a bet has a Processed journal row, no step of a
\* betResult that carries only that bet changes a wallet balance, whatever
\* amount the delivery states and whatever was settled in between (a
\* Processed refund of the bet included).
C35_SettledBetStaysSettled ==
    [][\A p \in Procs :
          (/\ req[p].kind = "betResult" /\ ~Truthy(req[p].win)
           /\ pc'[p] # pc[p]
           /\ ProcessedRows(req[p].userId, loc[p].bank_id, "bet", loc[p].bet_ext) # {})
              => wallets' = wallets]_vars

\* The bet 80|a was settled and refunded; its key is delivered again with
\* another amount and answered OK with the refunded balance.
C35_Witness ==
    /\ last.req.kind = "betResult" /\ ~Truthy(last.req.win) /\ last.resp.result = "OK"
    /\ AmountOf(last.req.bet) # 80
    /\ \E b \in ProcessedRows(last.req.userId, 6111, "bet", ExtOf(last.req.bet)) :
          b.amount = DecFromCents(80)
    /\ ProcessedRows(last.req.userId, 6111, "refund", ExtOf(last.req.bet)) # {}
    /\ last.resp.balance = StartCents(last.req.userId)

\* A Decimal with at most two decimal digits.
TwoPlaces(d) == d % 100 = 0

\* round(d * 100): the nearest integer, a tie to the even one.
RoundTimes100(d) == QuantizeHalfEven(d) \div 100

\* C36: every balance stored by betResult or refundBet, committed or still
\* in its transaction, has at most two decimal digits, and the BALANCE of
\* every answer that carries one is round(balance * 100) of the player's
\* committed balance, for positive, zero and negative balances.
C36_WireBalanceExact ==
    /\ \A w \in wallets : TwoPlaces(w.balance)
    /\ \A p \in Procs : tx[p].bal_has => TwoPlaces(tx[p].bal)
    /\ (last.resp.has_balance /\ last.req.kind \in {"betResult", "balance", "account"})
          => last.resp.balance =
                IF WalletRows(last.req.userId, "USD") = {} THEN 0
                ELSE RoundTimes100(FirstWallet(last.req.userId, "USD").balance)

\* A balance callback reports the overdrawn wallet of player 2 as -80.
C36_Witness ==
    /\ last.req.kind = "balance" /\ last.resp.result = "OK"
    /\ last.resp.balance = 0 - 80
    /\ FirstWallet(last.req.userId, "USD").balance = 0 - DecFromCents(80)

\* What a token says about its session, whether or not it still verifies:
\* player (sub and uid), type, provider, bankId and gameId.
Identity(token) ==
    LET c == TokenClaims(token)
    IN  <<c.sub, c.uid, c.type, c.provider, c.bankId, c.gameId>>

\* C37: refreshing a session keeps its identity: whenever a step replaces
\* the token of a session row, the new token carries the player, type,
\* provider, bankId and gameId of the token it replaces, also when the old
\* token has expired.
C37_RefreshKeepsIdentity ==
    [][\A s \in sessions : \A t \in sessions' :
          (s.session_id = t.session_id /\ s.token # t.token)
              => Identity(t.token) = Identity(s.token)]_vars

\* The expiry expire_if_past compares with the clock.
ExpiryOf(s) == IF s.expires_at # NoTime THEN s.expires_at ELSE exp_from_jwt(s.token)

\* No active row holds the token: its session is closed or unknown.
ClosedOrUnknown(token) == \A s \in sessions : s.token = token => s.status # "active"

\* The status of every row moves only from active to expired (its expiry
\* being at or before now, no logout answered in the step) or to logged_out
\* (the logout of its token), and a row that is not active stays as it is.
StatusMonotone ==
    /\ {s.session_id : s \in sessions'} = {s.session_id : s \in sessions}
    /\ \A s \in sessions : \A t \in sessions' :
          s.session_id = t.session_id =>
             /\ s.status # "active" => t = s
             /\ (s.status = "active" /\ t.status # "active") =>
                   \/ /\ t.status = "expired"
                      /\ ExpiryOf(s) # NoTime
                      /\ ExpiryOf(s) <= now
                      /\ last'.req.kind # "logout"
                   \/ /\ t.status = "logged_out"
                      /\ last'.req = LogoutRequest(s.token)

SessionClosed(token) ==
    \E s \in sessions : /\ s.token = token
                        /\ s.session_type = "game"
                        /\ s.status \in {"logged_out", "expired"}

\* C39: after a session has been logged out or has expired, an authenticate
\* callback presenting its token with the correct hash is answered
\* RESULT=FAILED with SESSION_NOT_FOUND (401).
C39_ClosedSessionRejected ==
    (/\ last.req.kind = "authenticate"
     /\ DigestMatches(last.req)
     /\ SessionClosed(last.req.token)) => last.resp = Failed(401)

============================================================================
